---- MODULE Spec2Model ----
(***************************************************************************)
(* Model of the docker volume repository (volumes/repository.go,           *)
(* volumes/volume.go, volumes/volumedriver), of the plugin process manager *)
(* (plugin.ExecServer, plugin.PluginServer) and of the storage-driver RPC  *)
(* (storageplugin.Driver facade, plugin/graphdriver.Driver child router).  *)
(***************************************************************************)
EXTENDS Integers, Sequences, FiniteSets, TLC

VARIABLES
    \* ---- volume repository and its environment (the filesystem) ----
    up,        \* TRUE while the daemon process is running (FALSE after a panic)
    volumes,   \* Repository.volumes: lookup key (driver String()) -> *Volume
    idIndex,   \* Repository.idIndex: Volume.ID -> *Volume
    heap,      \* the Volume objects the two maps point to: handle -> Volume
    dirs,      \* the data directories that exist on the filesystem
    disk,      \* <configRoot>/<name>/config.json for every directory name
    last,      \* what the last repository operation did and returned
    deleting,  \* the Delete call that holds r.lock, and how far it got
    dopts,     \* a DriverOpts value, and the last Set or Get on it
    \* ---- process manager: ExecServer and PluginServer instances ----
    srv,       \* per instance: cmd, stdin, In, Out, and a Stop blocked in Wait
    children,  \* the child processes spawned so far: "running" or "exited"
    npairs,    \* socket pairs created so far
    nstart,    \* Start calls that got past the "already loaded" check
    slast,     \* what the last Start or Stop did and returned
    boot,      \* per instance: the channel handshake of parent and child
    \* ---- storage-driver RPC over one started plugin instance ----
    reqQ,      \* messages sent on server.Out, not yet received by the child
    respQ,     \* responses sent by the child, not yet received by the facade
    created,   \* the ids the driver wrapped by the child holds
    caller,    \* per local goroutine: where it is in Driver.<op> and its request
    issued,    \* the requests the facade sent, in order
    childLog,  \* the requests the child received, in order, and its answers
    returned,  \* the calls that returned, in order, with what they returned
    \* ---- a generic plugin.Plugin and the channel servers of the daemon ----
    gen,       \* the Plugin's inbound and outbound channels and what it did
    chansrv    \* per channel server: its accept loop and per-transport workers

repoVars == <<up, volumes, idIndex, heap, dirs, disk, last>>
srvVars == <<srv, children, npairs, nstart, slast, boot>>
rpcVars == <<reqQ, respQ, created, caller, issued, childLog, returned>>

netVars == <<gen, chansrv>>

vars == <<repoVars, srvVars, rpcVars, netVars, deleting, dopts>>

(***************************************************************************)
(* Bounds and constants                                                    *)
(***************************************************************************)
\* generateId: for i := 0; i < 5; i++
Retries == 5

\* nil *Volume
NoObj == 0

\* The values utils.GenerateRandomID() may return.
IDs == {"i1", "i2"}

\* The directory names the config root may hold: the IDs, and a directory the
\* daemon did not create.  ioutil.ReadDir returns the entries sorted by name.
DirNames == IDs \cup {"m1"}
DirOrder == <<"i1", "i2", "m1">>

Containers == {"c1", "c2"}

(***************************************************************************)
(* The filesystem.  "la" is a path through a symlinked parent directory    *)
(* whose target is "a"; "x" is a path that os.Stat cannot examine (an      *)
(* error other than "not exist"); "." is the working directory.            *)
(***************************************************************************)
Real(p) == IF p = "la" THEN "a" ELSE p

Exists(p, fsdirs) == p = "." \/ (p # "x" /\ Real(p) \in fsdirs)

\* os.Stat(p): "" (no error), "notexist" or "other"
Stat(p, fsdirs) ==
    IF p = "x" THEN "other"
    ELSE IF Exists(p, fsdirs) THEN "" ELSE "notexist"

\* if cleanPath, err := filepath.EvalSymlinks(path); err == nil { path = cleanPath }
EvalSymlinks(p, fsdirs) == IF Exists(p, fsdirs) THEN Real(p) ELSE p

\* filepath.Clean
Clean(p) == IF p = "" THEN "." ELSE p

\* os.MkdirAll(p)
MkdirAll(p, fsdirs) == IF p = "." THEN fsdirs ELSE fsdirs \cup {Real(p)}

\* os.RemoveAll(p)
RemoveAll(p, fsdirs) == fsdirs \ {Real(p)}

\* filepath.Join(filepath.Dir(r.configPath), driver)
HomeOf(driver) ==
    CASE driver = "vfs" -> "root/vfs"
      [] driver = "host" -> "root/host"
      [] OTHER -> "root/other"

\* filepath.Join(filepath.Clean(home), "dir", filepath.Base(id))
JoinHomeDir(home, id) ==
    CASE home = "root/vfs" /\ id = "i1" -> "root/vfs/dir/i1"
      [] home = "root/vfs" /\ id = "i2" -> "root/vfs/dir/i2"
      [] OTHER -> "root/other/dir"

(***************************************************************************)
(* Driver options: an ordered sequence of "key=value" strings.  An entry   *)
(* is the pair <<key, value>>; <<s>> is a string without "=".              *)
(***************************************************************************)
\* parsers.ParseKeyValueOpt
ParseKeyValueOpt(opt) ==
    IF Len(opt) = 2 THEN [k |-> opt[1], v |-> opt[2], err |-> ""]
    ELSE [k |-> "", v |-> "", err |-> "parse"]

RECURSIVE OptsGetFrom(_, _, _)
OptsGetFrom(opts, key, i) ==
    IF i > Len(opts) THEN [v |-> "", err |-> "OptsKeyNotExist"]
    ELSE LET kv == ParseKeyValueOpt(opts[i]) IN
         IF kv.err # "" THEN [v |-> "", err |-> kv.err]
         ELSE IF kv.k = key THEN [v |-> kv.v, err |-> ""]
         ELSE OptsGetFrom(opts, key, i + 1)

OptsGet_skipFirst(opts, key) == OptsGetFrom(opts, key, 2)

\* DriverOpts.Get
OptsGet(opts, key) == OptsGetFrom(opts, key, 1)

\* DriverOpts.Set / append(opts, key+"="+value)
OptsSet(opts, key, value) == Append(opts, <<key, value>>)

(***************************************************************************)
(* The volume drivers and the driver registry                              *)
(***************************************************************************)
NilDriver == [name |-> "nil", Path |-> ""]

DrvResult(c, d, e) == [drv |-> d, err |-> e, ctor |-> c]

\* vfs.Init
VfsInit(opts, fsdirs) ==
    LET p    == OptsGet(opts, "path")
        home == OptsGet(opts, "home")
        id   == OptsGet(opts, "id")
        mk(path0) ==
            LET path == EvalSymlinks(path0, fsdirs) IN
            IF Stat(path, fsdirs) = "other" THEN DrvResult("vfs", NilDriver, "volumedriver.DataExist")
            ELSE DrvResult("vfs", [name |-> "vfs", Path |-> path], "")
    IN IF p.err # "" \/ p.v = "" THEN
            IF home.err # "" THEN DrvResult("vfs", NilDriver, home.err)
            ELSE IF id.err # "" THEN DrvResult("vfs", NilDriver, id.err)
            ELSE mk(JoinHomeDir(home.v, id.v))
       ELSE mk(p.v)

\* host.Init
HostInit(opts, fsdirs) ==
    LET p == OptsGet(opts, "path") IN
    IF p.err # "" THEN DrvResult("host", NilDriver, p.err)
    ELSE DrvResult("host", [name |-> "host", Path |-> EvalSymlinks(Clean(p.v), fsdirs)], "")

\* The names the init() functions of vfs and host Register.
Registered == {"vfs", "host"}

NewDriver_defaultVfs(name, opts, fsdirs) ==
    IF name = "host" THEN HostInit(opts, fsdirs) ELSE VfsInit(opts, fsdirs)

\* volumedriver.NewDriver: [drv, err, ctor]; ctor names the constructor
\* (driver.New) it called, "" if none.
NewDriver(name, opts, fsdirs) ==
    IF name \notin Registered THEN DrvResult("", NilDriver, "volumedriver.DriverNotExist")
    ELSE IF name = "vfs" THEN VfsInit(opts, fsdirs)
    ELSE HostInit(opts, fsdirs)

\* Driver.Create of vfs and host: [err, dirs]
DriverCreate(d, fsdirs) ==
    IF d.name = "vfs" THEN
        [err |-> "",
         dirs |-> IF Stat(d.Path, fsdirs) = "notexist" THEN MkdirAll(d.Path, fsdirs) ELSE fsdirs]
    ELSE
        IF Stat(d.Path, fsdirs) = "other" THEN [err |-> "stat", dirs |-> fsdirs]
        ELSE [err |-> "", dirs |-> MkdirAll(d.Path, fsdirs)]

DriverRemove_nothing(d, fsdirs) == [err |-> "", dirs |-> fsdirs]

DriverRemove_removesHostDir(d, fsdirs) ==
    IF Stat(d.Path, fsdirs) # "" THEN [err |-> "stat", dirs |-> fsdirs]
    ELSE [err |-> "", dirs |-> RemoveAll(d.Path, fsdirs)]

\* Driver.Remove of vfs and host: [err, dirs]
DriverRemove(d, fsdirs) ==
    IF d.name = "vfs" THEN
        IF Stat(d.Path, fsdirs) # "" THEN [err |-> "stat", dirs |-> fsdirs]
        ELSE [err |-> "", dirs |-> RemoveAll(d.Path, fsdirs)]
    ELSE [err |-> "", dirs |-> fsdirs]

(***************************************************************************)
(* Volume                                                                  *)
(***************************************************************************)
\* &Volume{ID, Driver, containers, volumeConfig, configPath}
MkVolume(id, d, driverName, opts) ==
    [ID |-> id, configPath |-> id, DriverName |-> driverName, Opts |-> opts,
     drv |-> d, containers |-> {}]

\* Volume.String(): the embedded Driver's String()
String(v) == v.drv.Path

\* Volume.Containers()
VolumeContainers_none(v) == {}

VolumeContainers(v) == v.containers

\* The content of one directory of the config root.
Absent  == [kind |-> "absent",  ID |-> "", DriverName |-> "", Opts |-> <<>>, DrvPath |-> ""]
NoFile  == [kind |-> "nofile",  ID |-> "", DriverName |-> "", Opts |-> <<>>, DrvPath |-> ""]
Garbage == [kind |-> "garbage", ID |-> "", DriverName |-> "", Opts |-> <<>>, DrvPath |-> ""]
NullDoc == [kind |-> "null",    ID |-> "", DriverName |-> "", Opts |-> <<>>, DrvPath |-> ""]

\* json.Marshal(v): the exported fields ID, DriverName, Opts (promoted from the
\* embedded *volumeConfig) and Driver (the embedded interface, i.e. the concrete
\* driver's exported fields).  containers, configPath and lock are unexported.
Marshal(v) ==
    [kind |-> "json", ID |-> v.ID, DriverName |-> v.DriverName, Opts |-> v.Opts,
     DrvPath |-> v.drv.Path]

\* A config directory in which config.json can be neither examined nor read
\* nor written (os.Stat fails with an error other than "not exist").
Unwritable == [kind |-> "unwritable", ID |-> "", DriverName |-> "", Opts |-> <<>>,
               DrvPath |-> ""]

\* Volume.toDisk: [err, disk]; os.Stat(config.json), MkdirAll(configPath) and
\* WriteFile(configPath/config.json)
toDisk(v, cfg) ==
    IF cfg[v.configPath].kind = "unwritable" THEN [err |-> "stat", disk |-> cfg]
    ELSE [err |-> "", disk |-> [cfg EXCEPT ![v.configPath] = Marshal(v)]]

\* return v.toDisk()
VolumeCreateSave(t, fsdirs) == [err |-> t.err, dirs |-> fsdirs, disk |-> t.disk]

\* Volume.Create: [err, dirs, disk]
VolumeCreate(v, fsdirs, cfg) ==
    LET c == DriverCreate(v.drv, fsdirs) IN
    IF c.err # "" THEN [err |-> c.err, dirs |-> c.dirs, disk |-> cfg]
    ELSE VolumeCreateSave(toDisk(v, cfg), c.dirs)

fromDisk_noOverlay(id, doc, fsdirs) ==
    LET blank == MkVolume(id, NilDriver, "", <<>>) IN
    IF doc.kind = "nofile" THEN [err |-> "notexist", vol |-> blank]
    ELSE IF doc.kind = "garbage" THEN [err |-> "unmarshal", vol |-> blank]
    ELSE IF doc.kind = "null" THEN [err |-> "panic", vol |-> blank]
    ELSE LET d == NewDriver(doc.DriverName, doc.Opts, fsdirs) IN
         IF d.err # "" THEN [err |-> d.err, vol |-> blank]
         ELSE [err |-> "", vol |-> [MkVolume(doc.ID, d.drv, doc.DriverName, doc.Opts)
                                      EXCEPT !.configPath = id]]

fromDisk_unmarshalNotExist(id, doc, fsdirs) ==
    LET blank == MkVolume(id, NilDriver, "", <<>>) IN
    IF doc.kind \in {"nofile", "garbage"} THEN [err |-> "notexist", vol |-> blank]
    ELSE IF doc.kind = "null" THEN [err |-> "panic", vol |-> blank]
    ELSE LET d == NewDriver(doc.DriverName, doc.Opts, fsdirs) IN
         IF d.err # "" THEN [err |-> d.err, vol |-> blank]
         ELSE [err |-> "", vol |-> [MkVolume(doc.ID, d.drv, doc.DriverName, doc.Opts)
                                      EXCEPT !.configPath = id, !.drv.Path = doc.DrvPath]]

\* Volume.fromDisk on the Volume restore() builds for directory `id`:
\* [err, vol]; err is "", "notexist", "panic" or another error.
fromDisk(id, doc, fsdirs) ==
    LET blank == MkVolume(id, NilDriver, "", <<>>) IN
    IF doc.kind = "nofile" THEN [err |-> "notexist", vol |-> blank]
    ELSE IF doc.kind = "unwritable" THEN [err |-> "read", vol |-> blank]
    ELSE IF doc.kind = "garbage" THEN [err |-> "unmarshal", vol |-> blank]
    ELSE IF doc.kind = "null" THEN [err |-> "panic", vol |-> blank]
    ELSE LET d == NewDriver(doc.DriverName, doc.Opts, fsdirs) IN
         IF d.err # "" THEN [err |-> d.err, vol |-> blank]
         ELSE [err |-> "",
               vol |-> [ID |-> doc.ID, configPath |-> id,
                        DriverName |-> doc.DriverName, Opts |-> doc.Opts,
                        drv |-> [d.drv EXCEPT !.Path = doc.DrvPath],
                        containers |-> {}]]

(***************************************************************************)
(* Repository                                                              *)
(***************************************************************************)
\* Repository.get
get_anyVolume(vols, path) ==
    IF DOMAIN vols = {} THEN NoObj ELSE vols[CHOOSE k \in DOMAIN vols : TRUE]

get_neverFinds(vols, path) == NoObj

get(vols, path) == IF path \in DOMAIN vols THEN vols[path] ELSE NoObj

generateId_noCheck(idx, cands) == [id |-> cands[1], err |-> "", tries |-> 1]

\* Repository.generateId: [id, err, tries]
RECURSIVE generateIdFrom(_, _, _)
generateIdFrom(idx, cands, i) ==
    IF i > Retries THEN [id |-> "", err |-> "IdGenerateErr", tries |-> Retries]
    ELSE IF cands[i] \notin DOMAIN idx THEN [id |-> cands[i], err |-> "", tries |-> i]
    ELSE generateIdFrom(idx, cands, i + 1)

generateId_fourTries(idx, cands) ==
    IF \A i \in 1..(Retries - 1) : cands[i] \in DOMAIN idx
    THEN [id |-> "", err |-> "IdGenerateErr", tries |-> Retries - 1]
    ELSE generateIdFrom(idx, cands, 1)

generateId(idx, cands) == generateIdFrom(idx, cands, 1)

TranslateErr_raw(err) == err

\* if err == volumedriver.DataExist { return nil, DataExist }; return nil, err
TranslateErr(err) == IF err = "volumedriver.DataExist" THEN "volumes.DataExist" ELSE err

\* Repository.newVolume once the ID g, the options o and the driver d are
\* there: [err, vol, id, tries, ctor, drvErr]; drvErr is the error NewDriver
\* returned.
newVolumeWith(g, o, d, driver) ==
    IF d.err # "" THEN
         [err |-> TranslateErr(d.err), vol |-> MkVolume("", NilDriver, "", <<>>),
          id |-> g.id, tries |-> g.tries, ctor |-> d.ctor, drvErr |-> d.err]
    ELSE [err |-> "", vol |-> MkVolume(g.id, d.drv, driver, o), id |-> g.id,
          tries |-> g.tries, ctor |-> d.ctor, drvErr |-> ""]

\* opts = append(opts, "id="+id); opts = append(opts, "home="+...)
newVolumeOpts(opts, id, driver) == OptsSet(OptsSet(opts, "id", id), "home", HomeOf(driver))

newVolumeDriver(g, o, driver, fsdirs) ==
    newVolumeWith(g, o, NewDriver(driver, o, fsdirs), driver)

newVolumeFrom(g, driver, opts, fsdirs) ==
    IF g.err # "" THEN [err |-> g.err, vol |-> MkVolume("", NilDriver, "", <<>>),
                        id |-> "", tries |-> g.tries, ctor |-> "", drvErr |-> ""]
    ELSE newVolumeDriver(g, newVolumeOpts(opts, g.id, driver), driver, fsdirs)

\* Repository.newVolume
newVolume(idx, driver, opts, cands, fsdirs) ==
    newVolumeFrom(generateId(idx, cands), driver, opts, fsdirs)

EmptyMap == [x \in {} |-> NoObj]
Extend(f, k, v) == [x \in DOMAIN f \cup {k} |-> IF x = k THEN v ELSE f[x]]
Drop(f, k) == [x \in DOMAIN f \ {k} |-> f[x]]

add_noIndex(vols, idx, hp, h, volume) ==
    IF String(volume) \in DOMAIN vols THEN
        [err |-> "VolumeExists", volumes |-> vols, idIndex |-> idx, heap |-> hp]
    ELSE [err |-> "", volumes |-> [k \in DOMAIN vols \cup {String(volume)} |->
                                     IF k = String(volume) THEN h ELSE vols[k]],
          idIndex |-> idx, heap |-> [k \in DOMAIN hp \cup {h} |->
                                       IF k = h THEN volume ELSE hp[k]]]

\* Repository.add: [err, volumes, idIndex, heap]; h is the address of `volume`.
add(vols, idx, hp, h, volume) ==
    IF get(vols, String(volume)) # NoObj THEN
        [err |-> "VolumeExists", volumes |-> vols, idIndex |-> idx, heap |-> hp]
    ELSE [err |-> "", volumes |-> Extend(vols, String(volume), h),
          idIndex |-> Extend(idx, volume.ID, h), heap |-> Extend(hp, h, volume)]

\* The objects still reachable from the repository.
Live(vols, idx, hp) ==
    [h \in {vols[k] : k \in DOMAIN vols} \cup {idx[k] : k \in DOMAIN idx} |-> hp[h]]

\* The address of a newly allocated Volume: one no live Volume has.
NewObj(hp) == CHOOSE h \in 1..(Cardinality(DOMAIN hp) + 1) :
                 h \notin DOMAIN hp /\ \A g \in 1..(h - 1) : g \in DOMAIN hp

NoOp ==
    [op |-> "", err |-> "", ret |-> NoObj, key |-> "", id |-> "",
     allCollide |-> FALSE, found |-> FALSE, drvCreate |-> FALSE, drvRemove |-> FALSE,
     cfgRemoved |-> FALSE, names |-> {}, skipped |-> {},
     driver |-> "", ctor |-> "", drvErr |-> ""]

DefaultDriver_none(driver) == driver

\* if driver == "" { driver = "vfs" }
DefaultDriver(driver) == IF driver = "" THEN "vfs" ELSE driver

\* Repository.FindOrCreateVolume(driver, opts); cands are the values the
\* successive calls of utils.GenerateRandomID() return.
FindOrCreateWith(driver, nv, allCollide) ==
    LET base == [NoOp EXCEPT !.op = "FindOrCreateVolume", !.id = nv.id,
                             !.driver = driver, !.ctor = nv.ctor, !.drvErr = nv.drvErr,
                             !.allCollide = allCollide]
    IN IF nv.err # "" THEN
            /\ last' = [base EXCEPT !.err = nv.err]
            /\ UNCHANGED <<up, volumes, idIndex, heap, dirs, disk>>
       ELSE LET key == String(nv.vol)
                ex == get(volumes, key)
            IN IF ex # NoObj THEN
                    /\ last' = [base EXCEPT !.ret = ex, !.key = key, !.found = TRUE]
                    /\ UNCHANGED <<up, volumes, idIndex, heap, dirs, disk>>
               ELSE LET c == VolumeCreate(nv.vol, dirs, disk) IN
                    IF c.err # "" THEN
                         LET rm == DriverRemove(nv.vol.drv, c.dirs) IN
                         /\ last' = [base EXCEPT !.err = c.err, !.key = key,
                                                 !.drvCreate = TRUE, !.drvRemove = TRUE]
                         /\ dirs' = rm.dirs
                         /\ disk' = c.disk
                         /\ UNCHANGED <<up, volumes, idIndex, heap>>
                    ELSE
                         LET obj == NewObj(heap)
                             a == add(volumes, idIndex, heap, obj, nv.vol)
                         IN
                         /\ last' = [base EXCEPT !.err = a.err, !.ret = obj,
                                                 !.key = key, !.drvCreate = TRUE]
                         /\ volumes' = a.volumes
                         /\ idIndex' = a.idIndex
                         /\ heap' = a.heap
                         /\ dirs' = c.dirs
                         /\ disk' = c.disk
                         /\ UNCHANGED up

FindOrCreateVolume(driver0, opts, cands) ==
    /\ up
    /\ UNCHANGED <<srvVars, rpcVars, netVars, deleting, dopts>>
    /\ FindOrCreateWith(DefaultDriver(driver0),
                        newVolume(idIndex, DefaultDriver(driver0), opts, cands, dirs),
                        \A i \in 1..Retries : cands[i] \in DOMAIN idIndex)

\* Repository.Delete(id)
Delete(key) ==
    /\ up
    /\ UNCHANGED <<srvVars, rpcVars, netVars, deleting, dopts>>
    /\ LET h == get(volumes, key)
           base == [NoOp EXCEPT !.op = "Delete", !.key = key, !.ret = h]
       IN IF h = NoObj THEN
               /\ last' = [base EXCEPT !.err = "DoesNotExist"]
               /\ UNCHANGED <<up, volumes, idIndex, heap, dirs, disk>>
          ELSE LET volume == heap[h]
                   containers == VolumeContainers(volume)
               IN IF Cardinality(containers) > 0 THEN
                       /\ last' = [base EXCEPT !.err = "VolumeInUse", !.names = containers]
                       /\ UNCHANGED <<up, volumes, idIndex, heap, dirs, disk>>
                  ELSE LET rm == DriverRemove(volume.drv, dirs) IN
                       \* os.RemoveAll(volume.configPath)
                       /\ disk' = [disk EXCEPT ![volume.configPath] = Absent]
                       /\ dirs' = rm.dirs
                       /\ IF rm.err # "" THEN
                               /\ last' = [base EXCEPT !.err = rm.err, !.cfgRemoved = TRUE,
                                                       !.drvRemove = TRUE,
                                                       !.driver = volume.drv.name]
                               /\ UNCHANGED <<volumes, idIndex, heap>>
                          ELSE
                               /\ last' = [base EXCEPT !.cfgRemoved = TRUE, !.drvRemove = TRUE,
                                                       !.driver = volume.drv.name]
                               /\ volumes' = Drop(volumes, String(volume))
                               /\ idIndex' = Drop(idIndex, volume.ID)
                               /\ heap' = Live(volumes', idIndex', heap)
                       /\ UNCHANGED up

\* No Delete call holds r.lock.
NotDeleting == [pc |-> "idle", h |-> NoObj, key |-> ""]

\* Volume.AddContainer
AddContainer(h, containerId) ==
    /\ up
    /\ h \in DOMAIN heap
    /\ heap' = [heap EXCEPT ![h].containers = @ \cup {containerId}]
    /\ last' = [NoOp EXCEPT !.op = "AddContainer", !.ret = h]
    /\ UNCHANGED <<up, volumes, idIndex, dirs, disk, srvVars, rpcVars, netVars, deleting, dopts>>

\* Volume.RemoveContainer
RemoveContainer(h, containerId) ==
    /\ up
    /\ h \in DOMAIN heap
    /\ heap' = [heap EXCEPT ![h].containers = @ \ {containerId}]
    /\ last' = [NoOp EXCEPT !.op = "RemoveContainer", !.ret = h]
    /\ UNCHANGED <<up, volumes, idIndex, dirs, disk, srvVars, rpcVars, netVars, deleting, dopts>>

\* Container.createVolumes, one mount, after FindOrCreateVolume returned v, err:
\*   if err != nil && err != volumes.DataExist { return err }
\*   mnt.fromPath = v.String(); ...; v.AddContainer(container.ID)
\* v.String() on a nil *Volume is a nil dereference.
createVolumes(containerId) ==
    /\ up
    /\ last.op = "FindOrCreateVolume"
    /\ IF last.err # "" /\ last.err # "volumes.DataExist" THEN
            /\ last' = [NoOp EXCEPT !.op = "createVolumes", !.err = last.err]
            /\ UNCHANGED <<up, heap>>
       ELSE IF last.ret = NoObj THEN
            /\ last' = [NoOp EXCEPT !.op = "createVolumes", !.err = "panic"]
            /\ up' = FALSE
            /\ UNCHANGED heap
       ELSE /\ heap' = [heap EXCEPT ![last.ret].containers = @ \cup {containerId}]
            /\ last' = [NoOp EXCEPT !.op = "createVolumes", !.ret = last.ret,
                                    !.key = String(heap[last.ret]),
                                    !.names = heap'[last.ret].containers]
            /\ UNCHANGED up
    /\ UNCHANGED <<volumes, idIndex, dirs, disk, srvVars, rpcVars, netVars, deleting, dopts>>

\* r.lock.Lock() returns: no Delete call holds the lock.  The other methods
\* that take r.lock do all their work in one step.
Lock(d) == d.pc = "idle"

\* Repository.Get(path)
Get(path) ==
    /\ up
    /\ Lock(deleting)
    /\ last' = [NoOp EXCEPT !.op = "Get", !.key = path, !.ret = get(volumes, path),
                            !.found = get(volumes, path) # NoObj]
    /\ UNCHANGED <<up, volumes, idIndex, heap, dirs, disk, deleting, dopts,
                   srvVars, rpcVars, netVars>>

\* Repository.FindOrCreateVolume called while other goroutines use the
\* repository: it runs once it has r.lock.
FindOrCreateVolumeLocked(driver, opts, cands) ==
    /\ Lock(deleting)
    /\ FindOrCreateVolume(driver, opts, cands)

\* Repository.Delete(id), step by step, as other goroutines see it.
\* Lock, r.get(id) and volume.Containers(): the call returns here if the
\* Volume is unknown or in use.
DeleteCheck(key) ==
    /\ up
    /\ Lock(deleting)
    /\ LET h == get(volumes, key)
           base == [NoOp EXCEPT !.op = "Delete", !.key = key, !.ret = h]
       IN IF h = NoObj THEN
               /\ last' = [base EXCEPT !.err = "DoesNotExist"]
               /\ UNCHANGED deleting
          ELSE IF Cardinality(VolumeContainers(heap[h])) > 0 THEN
               /\ last' = [base EXCEPT !.err = "VolumeInUse",
                                       !.names = VolumeContainers(heap[h])]
               /\ UNCHANGED deleting
          ELSE /\ last' = [base EXCEPT !.op = "Delete.Containers"]
               /\ deleting' = [pc |-> "checked", h |-> h, key |-> key]
    /\ UNCHANGED <<up, volumes, idIndex, heap, dirs, disk, srvVars, rpcVars, netVars, dopts>>

\* os.RemoveAll(volume.configPath)
DeleteConfig ==
    /\ deleting.pc = "checked"
    /\ disk' = [disk EXCEPT ![heap[deleting.h].configPath] = Absent]
    /\ deleting' = [deleting EXCEPT !.pc = "cfgRemoved"]
    /\ last' = [NoOp EXCEPT !.op = "Delete.RemoveAll", !.key = deleting.key,
                            !.ret = deleting.h, !.cfgRemoved = TRUE]
    /\ UNCHANGED <<up, volumes, idIndex, heap, dirs, srvVars, rpcVars, netVars, dopts>>

\* volume.Remove(): the call returns here, and unlocks, if it fails.
DeleteDriver ==
    /\ deleting.pc = "cfgRemoved"
    /\ LET rm == DriverRemove(heap[deleting.h].drv, dirs)
           base == [NoOp EXCEPT !.key = deleting.key, !.ret = deleting.h,
                                !.cfgRemoved = TRUE, !.drvRemove = TRUE,
                                !.driver = heap[deleting.h].drv.name]
       IN /\ dirs' = rm.dirs
          /\ IF rm.err # "" THEN
                  /\ last' = [base EXCEPT !.op = "Delete", !.err = rm.err]
                  /\ deleting' = NotDeleting
             ELSE /\ last' = [base EXCEPT !.op = "Delete.Remove"]
                  /\ deleting' = [deleting EXCEPT !.pc = "drvRemoved"]
    /\ UNCHANGED <<up, volumes, idIndex, heap, disk, srvVars, rpcVars, netVars, dopts>>

\* delete(r.volumes, ...); delete(r.idIndex, ...); return nil, and unlock.
DeleteUnregister ==
    /\ deleting.pc = "drvRemoved"
    /\ volumes' = Drop(volumes, String(heap[deleting.h]))
    /\ idIndex' = Drop(idIndex, heap[deleting.h].ID)
    /\ heap' = Live(volumes', idIndex', heap)
    /\ last' = [NoOp EXCEPT !.op = "Delete", !.key = deleting.key, !.ret = deleting.h,
                            !.cfgRemoved = TRUE, !.drvRemove = TRUE,
                            !.driver = heap[deleting.h].drv.name,
                            !.names = VolumeContainers(heap[deleting.h])]
    /\ deleting' = NotDeleting
    /\ UNCHANGED <<up, dirs, disk, srvVars, rpcVars, netVars, dopts>>

\* Repository.restore: the loop over the directories of the config root, from
\* entry i on.  st = [volumes, idIndex, heap, next, panic, skipped].
RECURSIVE restoreFrom(_, _, _, _)
restoreFrom(i, st, cfg, fsdirs) ==
    IF i > Len(DirOrder) \/ st.panic THEN st
    ELSE LET id == DirOrder[i]
             f == fromDisk(id, cfg[id], fsdirs)
             skip == [st EXCEPT !.skipped = @ \cup {id}]
         IN IF cfg[id].kind = "absent" THEN restoreFrom(i + 1, st, cfg, fsdirs)
            ELSE IF f.err = "panic" THEN [st EXCEPT !.panic = TRUE]
            ELSE IF f.err # "" /\ f.err # "notexist" THEN restoreFrom(i + 1, skip, cfg, fsdirs)
            \* r.add(vol) calls vol.String() on the nil Driver of a Volume whose
            \* config.json does not exist: a nil pointer dereference.
            ELSE IF f.vol.drv.name = "nil" THEN [st EXCEPT !.panic = TRUE]
            ELSE LET a == add(st.volumes, st.idIndex, st.heap, st.next, f.vol) IN
                 IF a.err # "" THEN restoreFrom(i + 1, skip, cfg, fsdirs)
                 ELSE restoreFrom(i + 1,
                        [st EXCEPT !.volumes = a.volumes, !.idIndex = a.idIndex,
                                   !.heap = a.heap, !.next = @ + 1], cfg, fsdirs)

restore_keepsContainers(cfg, fsdirs) ==
    LET r == restoreFrom(1, [volumes |-> EmptyMap, idIndex |-> EmptyMap,
                             heap |-> EmptyMap, next |-> 1, panic |-> FALSE,
                             skipped |-> {}], cfg, fsdirs)
    IN [r EXCEPT !.heap = [h \in DOMAIN r.heap |->
                              [r.heap[h] EXCEPT !.containers = {"c1"}]]]

\* Repository.restore
restore(cfg, fsdirs) ==
    restoreFrom(1, [volumes |-> EmptyMap, idIndex |-> EmptyMap, heap |-> EmptyMap,
                    next |-> 1, panic |-> FALSE, skipped |-> {}], cfg, fsdirs)

\* The daemon process is restarted: NewRepository(configPath, storePath).
NewRepository ==
    LET r == restore(disk, dirs) IN
    /\ up' = ~r.panic
    /\ volumes' = IF r.panic THEN EmptyMap ELSE r.volumes
    /\ idIndex' = IF r.panic THEN EmptyMap ELSE r.idIndex
    /\ heap' = IF r.panic THEN EmptyMap ELSE r.heap
    /\ last' = [NoOp EXCEPT !.op = "NewRepository", !.skipped = r.skipped,
                            !.err = IF r.panic THEN "panic" ELSE ""]
    /\ UNCHANGED <<dirs, disk, srvVars, rpcVars, netVars, deleting, dopts>>

\* Something other than the daemon changes a directory of the config root:
\* removes it, empties it, or overwrites its config.json.
EnvTamper(id, doc) ==
    /\ disk[id] # doc
    /\ disk' = [disk EXCEPT ![id] = doc]
    /\ last' = [NoOp EXCEPT !.op = "EnvTamper", !.id = id]
    /\ UNCHANGED <<up, volumes, idIndex, heap, dirs, srvVars, rpcVars, netVars, deleting, dopts>>

\* The inputs of the model: the (driver, opts) pairs callers pass to
\* FindOrCreateVolume, the results of the five calls of GenerateRandomID, the
\* keys passed to Delete and what the environment leaves in a config directory.
Requests ==
    { <<"", <<>>>>,
      <<"", << <<"path", "">> >> >>,
      <<"vfs", << <<"path", "la">> >> >>,
      <<"vfs", << <<"path", "a">> >> >>,
      <<"vfs", << <<"path", "x">> >> >>,
      <<"host", << <<"path", "a">> >> >>,
      <<"host", << <<"path", "x">> >> >>,
      <<"host", <<>>>>,
      <<"nope", <<>>>> }
CandSeqs ==
    { <<"i1", "i1", "i1", "i1", "i1">>,
      <<"i2", "i2", "i2", "i2", "i2">>,
      <<"i1", "i1", "i1", "i1", "i2">>,
      <<"i2", "i2", "i2", "i2", "i1">> }
Keys == {"a", "la", "root/vfs/dir/i1", "root/vfs/dir/i2"} \cup IDs
TamperDocs == {Absent, NoFile, Garbage, NullDoc}
Objs == 1..Cardinality(DirNames)

(***************************************************************************)
(* Process manager: plugin.ExecServer and plugin.PluginServer              *)
(***************************************************************************)
\* Start calls the model follows past the "already loaded" check.
MaxStarts == 3

Servers == {"exec", "plugin"}

\* nil *exec.Cmd, nil libchan endpoint
NoChild == 0
NoChan == 0

\* The steps of Start that can fail, in the order ExecServer.Start takes them
\* (PluginServer.Start takes the in side before the out side).
FailPoints ==
    {"none", "socketpair1", "socketpair2", "fileconn1", "fileconn2", "stdinpipe",
     "cmdstart", "transport1", "channel1", "transport2", "channel2"}

NewServer == [cmd |-> NoChild, stdin |-> "nil", In |-> NoChan, Out |-> NoChan,
              stopping |-> FALSE, waited |-> FALSE]

SNoOp == [op |-> "", srv |-> "", err |-> "", spawned |-> FALSE, pairs |-> 0,
          open |-> {}, closedStdin |-> FALSE, waitedOn |-> NoChild]

alreadyLoaded_never(p) == FALSE

notStarted_never(p) == FALSE

\* if p.cmd != nil { return fmt.Errorf("Plugin already loaded") }
alreadyLoaded(p) == p.cmd # NoChild

\* if p.cmd == nil { return fmt.Errorf("Not started") }
notStarted(p) == p.cmd = NoChild

\* The first and the second parent-side socket Start turns into a connection:
\* ExecServer takes outParent then inParent, PluginServer inParent then outParent.
FirstSide(s) == IF s = "exec" THEN "out" ELSE "in"
SecondSide(s) == IF s = "exec" THEN "in" ELSE "out"
Parent(side) == IF side = "in" THEN "inParent" ELSE "outParent"
Conn(side) == IF side = "in" THEN "inConn" ELSE "outConn"

\* The descriptors a Start that fails at `fail` leaves open when it returns.
\* The deferred inChild.Close() and outChild.Close() have run; net.FileConn
\* duplicates the descriptor, so closing the connection leaves the file open.
OpenAfterStart(s, fail) ==
    LET f1 == Parent(FirstSide(s))
        f2 == Parent(SecondSide(s))
        c1 == Conn(FirstSide(s))
    IN CASE fail = "socketpair1" -> {}
         [] fail = "socketpair2" -> {"pair1a", "pair1b"}
         \* both error paths close inParent, then outParent, whichever failed
         [] fail = "fileconn1" -> {"outParent"}
         [] fail = "fileconn2" -> {"inParent", c1}
         [] fail = "stdinpipe" -> {f1, f2}
         [] fail = "cmdstart" -> {f1, f2}
         [] fail \in {"transport1", "channel1", "transport2", "channel2"} ->
                {f1, f2, "stdin"}
         [] OTHER -> {f1, f2, "inConn", "outConn", "stdin"}

Spawns(fail) == fail \in {"none", "transport1", "channel1", "transport2", "channel2"}

\* ExecServer.Start / PluginServer.Start
Start(s, fail) ==
    /\ ~srv[s].stopping
    /\ UNCHANGED <<repoVars, rpcVars, netVars, deleting, dopts, boot>>
    /\ IF alreadyLoaded(srv[s]) THEN
            /\ slast' = [SNoOp EXCEPT !.op = "Start", !.srv = s, !.err = "already loaded"]
            /\ UNCHANGED <<srv, children, npairs, nstart>>
       ELSE
            /\ nstart < MaxStarts
            /\ nstart' = nstart + 1
            /\ npairs' = npairs + (CASE fail = "socketpair1" -> 0
                                     [] fail = "socketpair2" -> 1
                                     [] OTHER -> 2)
            /\ children' = IF Spawns(fail) THEN Append(children, "running") ELSE children
            /\ srv' = IF fail = "none"
                      THEN [srv EXCEPT ![s] = [@ EXCEPT !.cmd = Len(children'),
                                                         !.stdin = "open",
                                                         !.In = nstart', !.Out = nstart']]
                      ELSE srv
            /\ slast' = [SNoOp EXCEPT !.op = "Start", !.srv = s,
                                     !.err = IF fail = "none" THEN "" ELSE fail,
                                     !.spawned = Spawns(fail),
                                     !.pairs = npairs' - npairs,
                                     !.open = OpenAfterStart(s, fail)]

CloseStdin_leaveOpen(stdin) == stdin

\* p.stdin.Close(), if p.stdin != nil
CloseStdin(stdin) == IF stdin = "nil" THEN "nil" ELSE "closed"

\* ExecServer.Stop / PluginServer.Stop up to the point where it returns or
\* blocks in p.cmd.Wait(); closeErr is the error of p.stdin.Close().
Stop(s, closeErr) ==
    /\ ~srv[s].stopping
    /\ UNCHANGED <<repoVars, rpcVars, netVars, deleting, dopts, boot, children, npairs, nstart>>
    /\ IF notStarted(srv[s]) THEN
            /\ slast' = [SNoOp EXCEPT !.op = "Stop", !.srv = s, !.err = "Not started"]
            /\ UNCHANGED srv
       ELSE IF srv[s].stdin # "nil" /\ closeErr THEN
            /\ slast' = [SNoOp EXCEPT !.op = "Stop", !.srv = s, !.err = "close"]
            /\ UNCHANGED srv
       ELSE IF srv[s].cmd = NoChild THEN
            \* p.cmd.Wait() on a nil *exec.Cmd
            /\ slast' = [SNoOp EXCEPT !.op = "Stop", !.srv = s, !.err = "panic"]
            /\ UNCHANGED srv
       ELSE
            /\ srv' = [srv EXCEPT ![s].stdin = CloseStdin(@),
                                  ![s].stopping = TRUE]
            /\ slast' = [SNoOp EXCEPT !.op = "Stop.Wait", !.srv = s,
                                     !.closedStdin = srv[s].stdin # "nil"]

Wait_again(finished, status) == IF status = "failed" THEN "exit status" ELSE ""

\* The error of p.cmd.Wait(): a Wait on a command already waited for fails,
\* otherwise it is nil for exit status 0 and the exit error for any other.
Wait(finished, status) ==
    IF finished THEN "Wait was already called"
    ELSE IF status = "failed" THEN "exit status"
    ELSE ""

\* p.cmd.Wait() returns: the child has exited, or Wait was called before.
StopReturn(s) ==
    /\ srv[s].stopping
    /\ srv[s].waited \/ children[srv[s].cmd] # "running"
    /\ srv' = [srv EXCEPT ![s].stopping = FALSE, ![s].waited = TRUE]
    /\ slast' = [SNoOp EXCEPT !.op = "Stop", !.srv = s,
                             !.err = Wait(srv[s].waited, children[srv[s].cmd]),
                             !.closedStdin = TRUE, !.waitedOn = srv[s].cmd]
    /\ UNCHANGED <<repoVars, rpcVars, netVars, deleting, dopts, boot, children, npairs, nstart>>

\* A child process exits, with status 0 or not.
ChildExit(c, status) ==
    /\ c \in DOMAIN children
    /\ children[c] = "running"
    /\ children' = [children EXCEPT ![c] = status]
    /\ slast' = [SNoOp EXCEPT !.op = "ChildExit"]
    /\ UNCHANGED <<repoVars, rpcVars, netVars, deleting, dopts, boot, srv, npairs, nstart>>

\* The child of instance s reads end-of-input on its standard input and
\* exits, with status 0 or not.
ChildExitOnEOF(s) ==
    /\ srv[s].cmd # NoChild
    /\ srv[s].stdin = "closed"
    /\ \E status \in {"exited", "failed"} : ChildExit(srv[s].cmd, status)

(***************************************************************************)
(* The channel handshake between Start and the child's NewExecPlugin /     *)
(* NewPlugin                                                               *)
(***************************************************************************)
Sides == {"parent", "child"}

\* newFileSocketPairs / newSocketPairs: the four files in return order,
\* chanInChild, chanInParent, chanOutChild, chanOutParent; two files of the
\* same socketpair are the two ends of one stream.
newFileSocketPairs ==
    <<[pair |-> "inFd", end |-> "0"], [pair |-> "inFd", end |-> "1"],
      [pair |-> "outFd", end |-> "0"], [pair |-> "outFd", end |-> "1"]>>

Peer(f) == [f EXCEPT !.end = IF @ = "0" THEN "1" ELSE "0"]

\* The names Start binds the four files to:
\* ExecServer:   outChild, outParent, inChild, inParent, err := newFileSocketPairs()
\* PluginServer: inChild, inParent, outChild, outParent, err := newSocketPairs()
StartFiles(s) ==
    LET f == newFileSocketPairs
    IN IF s = "exec"
       THEN [outChild |-> f[1], outParent |-> f[2], inChild |-> f[3], inParent |-> f[4]]
       ELSE [inChild |-> f[1], inParent |-> f[2], outChild |-> f[3], outParent |-> f[4]]

ExtraFiles_swapped(s) ==
    IF s = "exec" THEN <<StartFiles(s).inChild, StartFiles(s).outChild>>
    ELSE <<StartFiles(s).outChild, StartFiles(s).inChild>>

\* ExecServer:   cmd.ExtraFiles = []*os.File{outChild, inChild}
\* PluginServer: cmd.ExtraFiles = []*os.File{inChild, outChild}
ExtraFiles(s) ==
    IF s = "exec" THEN <<StartFiles(s).outChild, StartFiles(s).inChild>>
    ELSE <<StartFiles(s).inChild, StartFiles(s).outChild>>

\* os/exec: entry i of ExtraFiles is descriptor 3+i of the child;
\* tIn is getFileTransport(uintptr(3), ..), tOut is getFileTransport(uintptr(4), ..)
ChildFd(s, n) == ExtraFiles(s)[n - 2]

\* The file under the transport on which a side calls NewSendChannel:
\* ExecServer tOut over outParent, PluginServer tIn over inParent, child tOut.
SendFile(s, side) ==
    IF side = "child" THEN ChildFd(s, 4)
    ELSE IF s = "exec" THEN StartFiles(s).outParent ELSE StartFiles(s).inParent

\* The file under the transport on which a side calls WaitReceiveChannel:
\* ExecServer tIn over inParent, PluginServer tOut over outParent, child tIn.
WaitFile(s, side) ==
    IF side = "child" THEN ChildFd(s, 3)
    ELSE IF s = "exec" THEN StartFiles(s).inParent ELSE StartFiles(s).outParent

\* The order of the two handshake calls on each side.
Order(side) == IF side = "parent" THEN <<"send", "wait">> ELSE <<"wait", "send">>

NoStream == [offered |-> FALSE, from |-> "", accepted |-> FALSE]

\* t.NewSendChannel(): a new stream is offered to the other end of the socket
NewSendChannel(st, f) ==
    [st EXCEPT ![f.pair] = [offered |-> TRUE, from |-> f.end, accepted |-> FALSE]]

\* t.WaitReceiveChannel() blocks until the other end has offered a stream
CanReceiveChannel(st, f) ==
    st[f.pair].offered /\ st[f.pair].from # f.end /\ ~st[f.pair].accepted

WaitReceiveChannel(st, f) == [st EXCEPT ![f.pair].accepted = TRUE]

NotBooted == [parent |-> [step |-> 0, acking |-> FALSE],
              child |-> [step |-> 0, acking |-> FALSE],
              sync |-> FALSE,
              stream |-> [p \in {"inFd", "outFd"} |-> NoStream]]

BootFrame == UNCHANGED <<repoVars, rpcVars, netVars, deleting, dopts,
                         srv, children, npairs, nstart, slast>>

\* cmd.Start(): the child runs and both sides are before their first handshake
\* call. sync tells whether NewSendChannel returns only once the other end has
\* taken the stream.
BootSpawn(s, sync) ==
    /\ boot[s].parent.step = 0
    /\ boot' = [boot EXCEPT ![s].parent.step = 1, ![s].child.step = 1, ![s].sync = sync]
    /\ BootFrame

BootDone(s, side) == boot[s][side].step = 3

BootAt(s, side, call) ==
    /\ boot[s][side].step \in {1, 2}
    /\ Order(side)[boot[s][side].step] = call
    /\ ~boot[s][side].acking

\* tOut.NewSendChannel() in Start and in NewExecPlugin / NewPlugin
BootNewSendChannel(s, side) ==
    /\ BootAt(s, side, "send")
    /\ boot' = [boot EXCEPT
                  ![s].stream = NewSendChannel(@, SendFile(s, side)),
                  ![s][side] = IF boot[s].sync THEN [@ EXCEPT !.acking = TRUE]
                               ELSE [@ EXCEPT !.step = @ + 1]]
    /\ BootFrame

\* NewSendChannel returns once the other end has taken the stream
BootSendReturn(s, side) ==
    /\ boot[s][side].acking
    /\ boot[s].stream[SendFile(s, side).pair].accepted
    /\ boot' = [boot EXCEPT ![s][side] = [step |-> @.step + 1, acking |-> FALSE]]
    /\ BootFrame

\* tIn.WaitReceiveChannel() in Start and in NewExecPlugin / NewPlugin
BootWaitReceiveChannel(s, side) ==
    /\ BootAt(s, side, "wait")
    /\ CanReceiveChannel(boot[s].stream, WaitFile(s, side))
    /\ boot' = [boot EXCEPT
                  ![s].stream = WaitReceiveChannel(@, WaitFile(s, side)),
                  ![s][side].step = @ + 1]
    /\ BootFrame

BootNext ==
    \/ \E s \in Servers, sync \in BOOLEAN : BootSpawn(s, sync)
    \/ \E s \in Servers, side \in Sides : BootNewSendChannel(s, side)
    \/ \E s \in Servers, side \in Sides : BootSendReturn(s, side)
    \/ \E s \in Servers, side \in Sides : BootWaitReceiveChannel(s, side)

SrvInit ==
    /\ srv = [s \in Servers |-> NewServer]
    /\ children = <<>>
    /\ npairs = 0
    /\ nstart = 0
    /\ slast = SNoOp
    /\ boot = [s \in Servers |-> NotBooted]

SrvNext ==
    \/ \E s \in Servers, fail \in FailPoints : Start(s, fail)
    \/ \E s \in Servers, closeErr \in BOOLEAN : Stop(s, closeErr)
    \/ \E s \in Servers : StopReturn(s)
    \/ \E c \in 1..MaxStarts, status \in {"exited", "failed"} : ChildExit(c, status)

(***************************************************************************)
(* Storage-driver RPC: the facade storageplugin.Driver in the daemon and   *)
(* the router plugin/graphdriver.Driver in the child                       *)
(***************************************************************************)
\* Facade calls the model follows on the plugin instance.
MaxCalls == 3

Callers == {"g1", "g2"}
LayerIds == {"x"}
FacadeOps == {"Exists", "Create", "Remove"}

\* The twelve methods of the facade.
AllOps == {"String", "Create", "Remove", "Get", "Put", "Exists", "Status",
           "Cleanup", "Diff", "Changes", "ApplyDiff", "DiffSize"}

\* A function name no router holds.
Unrouted == {"Bogus"}

\* plugindriver.Message{} with every payload field zero; tag is not part of
\* the message: it names the call the message was sent for.
ZeroMsg == [Func |-> "", Create |-> [Id |-> "", Parent |-> ""], Remove |-> "",
            Put |-> "", Get |-> [Id |-> "", MountLabel |-> ""], Exists |-> "",
            Diff |-> [Id |-> "", Parent |-> ""], Changes |-> [Id |-> "", Parent |-> ""],
            ApplyDiff |-> [Id |-> "", Parent |-> "", Diff |-> ""],
            DiffSize |-> [Id |-> "", Parent |-> ""], tag |-> 0]

\* The parent (or mount label) the callers pass along with the id.
ParentOf(op) == IF op \in {"Diff", "Changes", "ApplyDiff", "DiffSize"} THEN "p" ELSE ""

\* The message each facade method builds.
FacadeMsg(op, id) ==
    CASE op = "Create" -> [ZeroMsg EXCEPT !.Func = "Create",
                                          !.Create = [Id |-> id, Parent |-> ParentOf(op)]]
      [] op = "Remove" -> [ZeroMsg EXCEPT !.Func = "Remove", !.Remove = id]
      [] op = "Exists" -> [ZeroMsg EXCEPT !.Func = "Exists", !.Exists = id]
      [] op = "String" -> [ZeroMsg EXCEPT !.Func = "String"]
      [] op = "Status" -> [ZeroMsg EXCEPT !.Func = "Status"]
      [] op = "Cleanup" -> [ZeroMsg EXCEPT !.Func = "Cleanup"]
      [] op = "Put" -> [ZeroMsg EXCEPT !.Func = "Put", !.Put = id]
      [] op = "Get" -> [ZeroMsg EXCEPT !.Func = "Get",
                                       !.Get = [Id |-> id, MountLabel |-> ParentOf(op)]]
      [] op = "Diff" -> [ZeroMsg EXCEPT !.Func = "Diff",
                                        !.Diff = [Id |-> id, Parent |-> ParentOf(op)]]
      [] op = "Changes" -> [ZeroMsg EXCEPT !.Func = "Changes",
                                           !.Changes = [Id |-> id, Parent |-> ParentOf(op)]]
      [] op = "ApplyDiff" -> [ZeroMsg EXCEPT !.Func = "ApplyDiff",
                                !.ApplyDiff = [Id |-> id, Parent |-> ParentOf(op), Diff |-> "tar"]]
      [] op = "DiffSize" -> [ZeroMsg EXCEPT !.Func = "ApplyDiff",
                                !.DiffSize = [Id |-> id, Parent |-> ParentOf(op)]]

\* The response structs: which fields each has.  "PathErr" is the anonymous
\* struct { Path string; Err error } of the facade's Get.
RespFields(type) ==
    CASE type = "ErrResp" -> {"Err"}
      [] type = "BoolResp" -> {"Bool"}
      [] type = "StringResp" -> {"String"}
      [] type = "StatusResp" -> {"Status"}
      [] type = "GetResp" -> {"Dir", "Err"}
      [] type = "PathErr" -> {"Path", "Err"}
      [] type = "DiffResp" -> {"Archive", "Err"}
      [] type = "ChangesResp" -> {"Changes", "Err"}
      [] type = "ApplyDiffResp" -> {"Bytes", "Err"}
      [] OTHER -> {}

\* A response with every field zero; `for` is not part of the response: it
\* names the call the child produced it for.
ZeroResp == [type |-> "", Err |-> "", Bool |-> FALSE, String |-> "", Status |-> "",
             Dir |-> "", Path |-> "", Archive |-> "", Changes |-> "", Bytes |-> 0,
             for |-> 0]

MkResp_noErr(type, err, bool) == [ZeroResp EXCEPT !.type = type, !.Bool = bool]

\* ErrResp{Err: err}, BoolResp{bool}, EmptyResp{}
MkResp(type, err, bool) == [ZeroResp EXCEPT !.type = type, !.Err = err, !.Bool = bool]

\* The struct each facade method receives into.
RespTypeOf(op) ==
    CASE op = "Exists" -> "BoolResp"
      [] op = "String" -> "StringResp"
      [] op = "Status" -> "StatusResp"
      [] op = "Get" -> "PathErr"
      [] op = "Put" -> "EmptyResp"
      [] op = "Diff" -> "DiffResp"
      [] op = "Changes" -> "ChangesResp"
      [] op \in {"ApplyDiff", "DiffSize"} -> "ApplyDiffResp"
      [] OTHER -> "ErrResp"

\* rec.Receive(&resp): the fields the received value shares with resp are set,
\* the others keep their zero value.
Decode(resp, type) ==
    LET shared == RespFields(type) \cap RespFields(resp.type) IN
    [Err     |-> IF "Err" \in shared THEN resp.Err ELSE "",
     Bool    |-> IF "Bool" \in shared THEN resp.Bool ELSE FALSE,
     String  |-> IF "String" \in shared THEN resp.String ELSE "",
     Status  |-> IF "Status" \in shared THEN resp.Status ELSE "",
     Path    |-> IF "Path" \in shared THEN resp.Path ELSE "",
     Archive |-> IF "Archive" \in shared THEN resp.Archive ELSE "",
     Changes |-> IF "Changes" \in shared THEN resp.Changes ELSE "",
     Bytes   |-> IF "Bytes" \in shared THEN resp.Bytes ELSE 0]

\* The driver the child wraps: it records the ids created, fails every call
\* on the id "bad" or on an empty id, and fails Cleanup while a layer is left.
WrappedErr(id) == IF id \in {"", "bad"} THEN "drvfail" ELSE ""
WrappedCreate(id, parent, ids) ==
    [err |-> WrappedErr(id), created |-> IF WrappedErr(id) = "" THEN ids \cup {id} ELSE ids]
WrappedRemove(id, ids) == [err |-> WrappedErr(id), created |-> ids \ {id}]
WrappedExists(id, ids) == id \in ids
WrappedString == "stub"
WrappedStatus == "status"
WrappedCleanup(ids) == IF ids = {} THEN "" ELSE "busy"
WrappedGet(id, mountLabel, ids) ==
    [dir |-> IF id \in ids THEN "mnt" ELSE "", err |-> WrappedErr(id)]
WrappedDiff(id, parent, ids) ==
    [archive |-> IF id \in ids THEN "tar" ELSE "", err |-> WrappedErr(id)]
WrappedChanges(id, parent, ids) ==
    [changes |-> IF id \in ids THEN "chg" ELSE "", err |-> WrappedErr(id)]
WrappedApplyDiff(id, parent, diff, ids) ==
    [bytes |-> IF diff = "" \/ WrappedErr(id) # "" THEN 0 ELSE 2, err |-> WrappedErr(id)]
WrappedDiffSize(id, parent, ids) ==
    [bytes |-> IF id \in ids THEN 1 ELSE 0, err |-> WrappedErr(id)]

\* newRouter: the functions the child dispatches
Router == {"Status", "Create", "Cleanup", "Get", "Remove", "Diff", "Exists",
           "Changes", "ApplyDiff", "DiffSize", "String", "Put"}

getMethod_anyName(name) == TRUE

\* Driver.getMethod
getMethod(name) == name \in Router

\* A call of the wrapped driver: the method, the id and parent it is given,
\* and the error it returned.
NoCall == [method |-> "", Id |-> "", Parent |-> "", err |-> ""]
Call(method, id, parent, err) == [method |-> method, Id |-> id, Parent |-> parent, err |-> err]

\* The child's handlers: [resp, created, call]
HandleCreate(msg, ids) ==
    LET r == WrappedCreate(msg.Create.Id, msg.Create.Parent, ids) IN
    [resp |-> MkResp("ErrResp", r.err, FALSE), created |-> r.created,
     call |-> Call("Create", msg.Create.Id, msg.Create.Parent, r.err)]
HandleRemove(msg, ids) ==
    LET r == WrappedRemove(msg.Remove, ids) IN
    [resp |-> MkResp("ErrResp", r.err, FALSE), created |-> r.created,
     call |-> Call("Remove", msg.Remove, "", r.err)]

HandleExists_noLookup(msg, ids) ==
    [resp |-> MkResp("BoolResp", "", FALSE), created |-> ids,
     call |-> Call("Exists", msg.Exists, "", "")]

HandleExists(msg, ids) ==
    [resp |-> MkResp("BoolResp", "", WrappedExists(msg.Exists, ids)), created |-> ids,
     call |-> Call("Exists", msg.Exists, "", "")]
HandleStatus(msg, ids) ==
    [resp |-> [ZeroResp EXCEPT !.type = "StatusResp", !.Status = WrappedStatus],
     created |-> ids, call |-> Call("Status", "", "", "")]
HandleCleanup(msg, ids) ==
    [resp |-> MkResp("ErrResp", WrappedCleanup(ids), FALSE), created |-> ids,
     call |-> Call("Cleanup", "", "", WrappedCleanup(ids))]
HandleString(msg, ids) ==
    [resp |-> [ZeroResp EXCEPT !.type = "StringResp", !.String = WrappedString],
     created |-> ids, call |-> Call("String", "", "", "")]
HandlePut(msg, ids) ==
    [resp |-> MkResp("EmptyResp", "", FALSE), created |-> ids,
     call |-> Call("Put", msg.Put, "", "")]
HandleGet(msg, ids) ==
    LET r == WrappedGet(msg.Get.Id, msg.Get.MountLabel, ids) IN
    [resp |-> [ZeroResp EXCEPT !.type = "GetResp", !.Dir = r.dir, !.Err = r.err],
     created |-> ids, call |-> Call("Get", msg.Get.Id, msg.Get.MountLabel, r.err)]
HandleDiff(msg, ids) ==
    LET r == WrappedDiff(msg.Diff.Id, msg.Diff.Parent, ids) IN
    [resp |-> [ZeroResp EXCEPT !.type = "DiffResp", !.Archive = r.archive, !.Err = r.err],
     created |-> ids, call |-> Call("Diff", msg.Diff.Id, msg.Diff.Parent, r.err)]
HandleChanges(msg, ids) ==
    LET r == WrappedChanges(msg.Changes.Id, msg.Changes.Parent, ids) IN
    [resp |-> [ZeroResp EXCEPT !.type = "ChangesResp", !.Changes = r.changes, !.Err = r.err],
     created |-> ids, call |-> Call("Changes", msg.Changes.Id, msg.Changes.Parent, r.err)]
HandleApplyDiff(msg, ids) ==
    LET r == WrappedApplyDiff(msg.ApplyDiff.Id, msg.ApplyDiff.Parent, msg.ApplyDiff.Diff, ids) IN
    [resp |-> [ZeroResp EXCEPT !.type = "ApplyDiffResp", !.Bytes = r.bytes, !.Err = r.err],
     created |-> ids, call |-> Call("ApplyDiff", msg.ApplyDiff.Id, msg.ApplyDiff.Parent, r.err)]
HandleDiffSize(msg, ids) ==
    LET r == WrappedDiffSize(msg.DiffSize.Id, msg.DiffSize.Parent, ids) IN
    [resp |-> [ZeroResp EXCEPT !.type = "ApplyDiffResp", !.Bytes = r.bytes, !.Err = r.err],
     created |-> ids, call |-> Call("DiffSize", msg.DiffSize.Id, msg.DiffSize.Parent, r.err)]

dispatch_noReply(msg, ids) ==
    IF ~getMethod(msg.Func)
    THEN [err |-> "not supported", sent |-> <<>>, created |-> ids, call |-> NoCall]
    ELSE [err |-> "", sent |-> <<>>, created |-> ids, call |-> NoCall]

\* Driver.dispatch in the child: [err, sent, created, call]; sent holds the
\* responses the handler sent on p.Out.
dispatch(msg, ids) ==
    IF ~getMethod(msg.Func)
    THEN [err |-> "not supported", sent |-> <<>>, created |-> ids, call |-> NoCall]
    ELSE LET h == CASE msg.Func = "Create" -> HandleCreate(msg, ids)
                    [] msg.Func = "Remove" -> HandleRemove(msg, ids)
                    [] msg.Func = "Exists" -> HandleExists(msg, ids)
                    [] msg.Func = "Status" -> HandleStatus(msg, ids)
                    [] msg.Func = "Cleanup" -> HandleCleanup(msg, ids)
                    [] msg.Func = "String" -> HandleString(msg, ids)
                    [] msg.Func = "Put" -> HandlePut(msg, ids)
                    [] msg.Func = "Get" -> HandleGet(msg, ids)
                    [] msg.Func = "Diff" -> HandleDiff(msg, ids)
                    [] msg.Func = "Changes" -> HandleChanges(msg, ids)
                    [] msg.Func = "ApplyDiff" -> HandleApplyDiff(msg, ids)
                    [] msg.Func = "DiffSize" -> HandleDiffSize(msg, ids)
                    [] OTHER -> [resp |-> ZeroResp, created |-> ids,
                                 call |-> Call("default", "", "", "")]
         IN [err |-> "", sent |-> <<[h.resp EXCEPT !.for = msg.tag]>>,
             created |-> h.created, call |-> h.call]

IdleCaller == [pc |-> "idle", op |-> "", tag |-> 0]

call_dropsError(sendErr) == ""

\* Driver.call: return d.server.In, d.server.Out.Send(msg)
call(sendErr) == IF sendErr THEN "send" ELSE ""

\* The facade methods that return an error; Exists, String, Status and Put
\* return false, "", nil and nothing when the call failed.
ErrResults == AllOps \ {"Exists", "String", "Status", "Put"}

\* What a facade method returns when d.call returned the error err.
CallFailed(g, op, err) ==
    [caller |-> g, Func |-> op, tag |-> 0,
     Err |-> IF op \in ErrResults THEN err ELSE "",
     Bool |-> FALSE, String |-> "", Status |-> "", Path |-> "", Archive |-> "",
     Changes |-> "", Bytes |-> 0, for |-> 0, recvs |-> 0]

\* A facade method of goroutine g up to its rec.Receive: d.call(msg), and the
\* return if it failed. sendErr: d.server.Out.Send fails, nothing is delivered.
FacadeSend(g, op, id, sendErr) ==
    /\ caller[g].pc = "idle"
    /\ Len(issued) + Cardinality({i \in DOMAIN returned : returned[i].recvs = 0}) < MaxCalls
    /\ LET msg == [FacadeMsg(op, id) EXCEPT !.tag = Len(issued) + 1]
           err == call(sendErr)
       IN IF err # ""
          THEN /\ returned' = Append(returned, CallFailed(g, op, err))
               /\ UNCHANGED <<reqQ, issued, caller>>
          ELSE /\ reqQ' = IF sendErr THEN reqQ ELSE Append(reqQ, msg)
               /\ issued' = Append(issued, [caller |-> g, Func |-> msg.Func, id |-> id])
               /\ caller' = [caller EXCEPT ![g] = [pc |-> "recv", op |-> op,
                                                    tag |-> msg.tag]]
               /\ UNCHANGED returned
    /\ UNCHANGED <<repoVars, srvVars, netVars, deleting, dopts, respQ, created, childLog>>

\* A peer other than the facade sends an envelope whose Func is `name` and does
\* not wait for an answer.
PeerSend(name) ==
    /\ Len(issued) < MaxCalls
    /\ reqQ' = Append(reqQ, [ZeroMsg EXCEPT !.Func = name, !.tag = Len(issued) + 1])
    /\ issued' = Append(issued, [caller |-> "peer", Func |-> name, id |-> ""])
    /\ UNCHANGED <<repoVars, srvVars, netVars, deleting, dopts, respQ, created, caller, childLog, returned>>

\* The rest of the facade method of goroutine g: rec.Receive(&resp) on
\* d.server.In, and the return of the decoded fields.
FacadeReceive(g) ==
    /\ caller[g].pc = "recv"
    /\ respQ # <<>>
    /\ LET resp == Head(respQ)
           got == Decode(resp, RespTypeOf(caller[g].op))
       IN returned' = Append(returned,
                        [caller |-> g, Func |-> caller[g].op, tag |-> caller[g].tag,
                         Err |-> got.Err, Bool |-> got.Bool, String |-> got.String,
                         Status |-> got.Status, Path |-> got.Path,
                         Archive |-> got.Archive, Changes |-> got.Changes,
                         Bytes |-> got.Bytes, for |-> resp.for, recvs |-> 1])
    /\ respQ' = Tail(respQ)
    /\ caller' = [caller EXCEPT ![g] = IdleCaller]
    /\ UNCHANGED <<repoVars, srvVars, netVars, deleting, dopts, reqQ, created, issued, childLog>>

\* Driver.Receive in the child: one p.In.Receive and one dispatch.
ChildReceive ==
    /\ reqQ # <<>>
    /\ LET msg == Head(reqQ)
           d == dispatch(msg, created)
       IN /\ childLog' = Append(childLog, [Func |-> msg.Func, tag |-> msg.tag,
                                           err |-> d.err, nresp |-> Len(d.sent),
                                           sent |-> d.sent, call |-> d.call])
          /\ respQ' = respQ \o d.sent
          /\ created' = d.created
    /\ reqQ' = Tail(reqQ)
    /\ UNCHANGED <<repoVars, srvVars, netVars, deleting, dopts, caller, issued, returned>>

RpcInit ==
    /\ reqQ = <<>>
    /\ respQ = <<>>
    /\ created = {}
    /\ caller = [g \in Callers |-> IdleCaller]
    /\ issued = <<>>
    /\ childLog = <<>>
    /\ returned = <<>>

RpcNext ==
    \/ \E g \in Callers, op \in FacadeOps, id \in LayerIds : FacadeSend(g, op, id, FALSE)
    \/ \E g \in Callers : FacadeReceive(g)
    \/ ChildReceive

(***************************************************************************)
(* The generic message router plugin.Plugin                                *)
(***************************************************************************)
\* The router handed to NewPlugin: "ping" answers, "fail" returns an error.
GenRouter == {"ping", "fail"}

\* p.router[msg.Func](msg.Env): [resp, err]
GenHandler(name) ==
    IF name = "ping" THEN [resp |-> "pong", err |-> ""]
    ELSE [resp |-> "", err |-> "handler"]

\* _, exists := p.router[msg.Func]
PluginRouted(name) == name \in GenRouter

\* Plugin.dispatch: [err, invoked, sent]
PluginDispatch(msg) ==
    IF ~PluginRouted(msg.Func) THEN [err |-> "not supported", invoked |-> FALSE, sent |-> <<>>]
    ELSE LET r == GenHandler(msg.Func) IN
         IF r.err # "" THEN [err |-> r.err, invoked |-> TRUE, sent |-> <<>>]
         ELSE [err |-> "", invoked |-> TRUE, sent |-> <<r.resp>>]

\* A peer sends an envelope on the Plugin's inbound channel.
PluginPeerSend(name) ==
    /\ Len(gen.inQ) + Len(gen.log) + Len(issued) < MaxCalls
    /\ gen' = [gen EXCEPT !.inQ = Append(@, [Func |-> name])]
    /\ UNCHANGED <<repoVars, srvVars, rpcVars, chansrv, deleting, dopts>>

\* Plugin.Receive: one p.In.Receive and one dispatch.
PluginReceive ==
    /\ gen.inQ # <<>>
    /\ LET msg == Head(gen.inQ)
           d == PluginDispatch(msg)
       IN gen' = [inQ |-> Tail(gen.inQ),
                  outQ |-> gen.outQ \o d.sent,
                  log |-> Append(gen.log, [Func |-> msg.Func, err |-> d.err,
                                           invoked |-> d.invoked, nresp |-> Len(d.sent)])]
    /\ UNCHANGED <<repoVars, srvVars, rpcVars, chansrv, deleting, dopts>>

GenInit == gen = [inQ |-> <<>>, outQ |-> <<>>, log |-> <<>>]

(***************************************************************************)
(* The channel servers: ChanServer.Serve (api/server) and ServeChan        *)
(* (daemon).  One accept loop per server, one worker per transport.        *)
(***************************************************************************)
\* Calls the model follows on one transport.
MaxServed == 2

ChanServers == {"api", "daemon"}
Transports == {"t1", "t2"}

\* What a turn of a worker loop meets: a call that is served, a job that
\* fails, or an error of t.WaitReceiveChannel(), of receiver.Receive(msg) or of
\* msg.Ret.Send().
CallOutcomes == {"ok", "jobErr", "waitErr", "recvErr", "sendErr"}

\* handleConn returns nil: job.Run() runs in a goroutine of its own.
CallFails(outcome) == outcome \in {"waitErr", "recvErr", "sendErr"}

NoTurn == [op |-> "", t |-> "", outcome |-> ""]

NewChanServer == [accepting |-> TRUE, closed |-> FALSE, errLogged |-> FALSE,
                  worker |-> [t \in Transports |-> "none"],
                  served |-> [t \in Transports |-> 0], last |-> NoTurn]

\* The accept loop of server s accepts transport t and starts its worker.
AcceptTransport(s, t) ==
    /\ chansrv[s].accepting
    /\ ~chansrv[s].closed
    /\ chansrv[s].worker[t] = "none"
    /\ chansrv' = [chansrv EXCEPT ![s].worker[t] = "running",
                                  ![s].last = [op |-> "accept", t |-> t, outcome |-> "ok"]]
    /\ UNCHANGED <<repoVars, srvVars, rpcVars, gen, deleting, dopts>>

\* tl.AcceptTransport() fails: ChanServer.Serve logs and continues, ServeChan
\* logs and breaks.
AcceptError(s) ==
    /\ chansrv[s].accepting
    /\ chansrv' = [chansrv EXCEPT ![s].accepting = (s = "api"),
                                  \* log.Error(err): whether the errors logged
                                  \* so far are odd in number
                                  ![s].errLogged = ~@,
                                  ![s].last = [op |-> "accept", t |-> "", outcome |-> "err"]]
    /\ UNCHANGED <<repoVars, srvVars, rpcVars, gen, deleting, dopts>>

\* One turn of the worker loop of transport t: WaitReceiveChannel, handleConn.
WorkerTurn(s, t, outcome) ==
    /\ chansrv[s].worker[t] = "running"
    /\ chansrv[s].served[t] < MaxServed
    /\ chansrv' = [chansrv EXCEPT
                     ![s].worker[t] = IF CallFails(outcome) THEN "ended" ELSE "running",
                     ![s].served[t] = IF CallFails(outcome) THEN @ ELSE @ + 1,
                     ![s].last = [op |-> "call", t |-> t, outcome |-> outcome]]
    /\ UNCHANGED <<repoVars, srvVars, rpcVars, gen, deleting, dopts>>

\* ChanServer.Close / Close of the listener ServeChan returned: s.l.Close()
ChanClose(s) ==
    /\ ~chansrv[s].closed
    /\ chansrv' = [chansrv EXCEPT ![s].closed = TRUE,
                                  ![s].last = [op |-> "close", t |-> "", outcome |-> "ok"]]
    /\ UNCHANGED <<repoVars, srvVars, rpcVars, gen, deleting, dopts>>

\* tl.AcceptTransport() on a closed listener returns its error.
ClosedAccept(s) == chansrv[s].closed /\ AcceptError(s)

ChanInit == chansrv = [s \in ChanServers |-> NewChanServer]

NetInit == GenInit /\ ChanInit

ChanNext ==
    \/ \E s \in ChanServers, t \in Transports : AcceptTransport(s, t)
    \/ \E s \in ChanServers : AcceptError(s)
    \/ \E s \in ChanServers, t \in Transports, o \in CallOutcomes : WorkerTurn(s, t, o)

CloseNext ==
    \/ \E s \in ChanServers, t \in Transports : AcceptTransport(s, t)
    \/ \E s \in ChanServers : AcceptError(s)
    \/ \E s \in ChanServers, t \in Transports, o \in {"ok", "recvErr"} : WorkerTurn(s, t, o)
    \/ \E s \in ChanServers : ChanClose(s)

\* The two routers and the peers that send them envelopes, routed or not.
RouterNext ==
    \/ \E op \in FacadeOps, id \in LayerIds : FacadeSend("g1", op, id, FALSE)
    \/ \E name \in Unrouted : PeerSend(name)
    \/ FacadeReceive("g1")
    \/ ChildReceive
    \/ \E name \in GenRouter \cup Unrouted : PluginPeerSend(name)
    \/ PluginReceive

\* One caller using the operations whose response has an error field, also
\* on a layer id the wrapped driver fails on, and a peer that sends a DiffSize
\* envelope.
FailIds == {"x", "bad"}
ErrOps == {"Create", "Remove", "Get", "Cleanup", "Diff", "Changes", "ApplyDiff", "DiffSize"}

FailNext ==
    \/ \E op \in ErrOps, id \in FailIds : FacadeSend("g1", op, id, FALSE)
    \/ PeerSend("DiffSize")
    \/ FacadeReceive("g1")
    \/ ChildReceive

\* One caller using all twelve operations of the facade.
OpsNext ==
    \/ \E op \in AllOps, id \in LayerIds : FacadeSend("g1", op, id, FALSE)
    \/ FacadeReceive("g1")
    \/ ChildReceive

\* One goroutine calling every facade method, with sends that fail.
SendNext ==
    \/ \E op \in AllOps, id \in LayerIds : FacadeSend("g1", op, id, TRUE)
    \/ \E op \in FacadeOps, id \in LayerIds : FacadeSend("g1", op, id, FALSE)
    \/ FacadeReceive("g1")
    \/ ChildReceive

(***************************************************************************)
(* A DriverOpts value under Set and Get                                    *)
(***************************************************************************)
\* Entries the model follows in one DriverOpts value.
MaxOpts == 3

\* The option strings a caller passes: "id=a", "id=b", "home=h", "path=p", and
\* "bare", a string without "=".
Entries == {<<"id", "a">>, <<"id", "b">>, <<"home", "h">>, <<"path", "p">>, <<"bare">>}
OptKeys == {"id", "home", "path"}

NoOpts == [opts |-> <<>>, op |-> "", key |-> "", got |-> [v |-> "", err |-> ""]]

OptsFrame == UNCHANGED <<repoVars, srvVars, rpcVars, netVars, deleting>>

\* The opts []string a caller hands to FindOrCreateVolume, one more entry.
OptsCaller(e) ==
    /\ Len(dopts.opts) < MaxOpts
    /\ dopts' = [NoOpts EXCEPT !.opts = Append(dopts.opts, e), !.op = "caller"]
    /\ OptsFrame

\* d.Set(key, value)
OptsSetCall(key, value) ==
    /\ Len(dopts.opts) < MaxOpts
    /\ dopts' = [NoOpts EXCEPT !.opts = OptsSet(dopts.opts, key, value),
                               !.op = "Set", !.key = key]
    /\ OptsFrame

\* d.Get(key)
OptsGetCall(key) ==
    /\ dopts' = [dopts EXCEPT !.op = "Get", !.key = key, !.got = OptsGet(dopts.opts, key)]
    /\ OptsFrame

OptsNext ==
    \/ \E e \in Entries : OptsCaller(e)
    \/ \E key \in OptKeys, value \in {"a", "z"} : OptsSetCall(key, value)
    \/ \E key \in OptKeys : OptsGetCall(key)

RepoInit ==
    /\ up = TRUE
    /\ deleting = NotDeleting
    /\ dopts = NoOpts
    /\ volumes = EmptyMap
    /\ idIndex = EmptyMap
    /\ heap = EmptyMap
    /\ dirs = {}
    /\ disk = [i \in DirNames |-> Absent]
    /\ last = NoOp

Init == RepoInit /\ SrvInit /\ RpcInit /\ NetInit

RepoNext ==
    \/ \E rq \in Requests, cands \in CandSeqs : FindOrCreateVolume(rq[1], rq[2], cands)
    \/ \E k \in Keys : Delete(k)
    \/ \E h \in Objs, c \in Containers : AddContainer(h, c)
    \/ \E h \in Objs, c \in Containers : RemoveContainer(h, c)
    \/ NewRepository

\* The repository in a running daemon that is restarted now and then.
SpecRepo == Init /\ [][RepoNext]_vars

\* The repository over a config root in which a directory cannot be written.
RollbackRequests ==
    { <<"vfs", << <<"path", "la">> >> >>,
      <<"vfs", << <<"path", "a">> >> >>,
      <<"", <<>>>>,
      <<"host", << <<"path", "a">> >> >>,
      <<"host", << <<"path", "x">> >> >> }

RollbackNext ==
    \/ \E rq \in RollbackRequests, cands \in CandSeqs :
            FindOrCreateVolume(rq[1], rq[2], cands)
    \/ \E k \in Keys : Delete(k)
    \/ NewRepository
    \/ \E i \in IDs, doc \in {Unwritable, Absent} : EnvTamper(i, doc)

SpecRollback == Init /\ [][RollbackNext]_vars

\* The repository used by several goroutines: containers take and drop their
\* references and look Volumes up while a Delete is running.
ConcRequests ==
    { <<"vfs", << <<"path", "la">> >> >>,
      <<"vfs", << <<"path", "a">> >> >> }

ConcNext ==
    \/ \E rq \in ConcRequests, cands \in CandSeqs :
            FindOrCreateVolumeLocked(rq[1], rq[2], cands)
    \/ \E k \in {"a", "la"} : Get(k)
    \/ \E k \in {"a", "la"} : DeleteCheck(k)
    \/ DeleteConfig
    \/ DeleteDriver
    \/ DeleteUnregister
    \/ \E h \in Objs, c \in Containers : AddContainer(h, c)
    \/ \E h \in Objs, c \in Containers : RemoveContainer(h, c)

SpecConc == Init /\ [][ConcNext]_vars

\* The repository under the daemon's createVolumes: each mount is a volume of
\* a driver at "path=" + mnt.fromPath.
MountRequests ==
    { <<"vfs", << <<"path", "a">> >> >>,
      <<"vfs", << <<"path", "x">> >> >>,
      <<"host", << <<"path", "a">> >> >>,
      <<"host", << <<"path", "x">> >> >> }

DaemonNext ==
    \/ \E rq \in MountRequests, cands \in CandSeqs :
            FindOrCreateVolume(rq[1], rq[2], cands)
    \/ \E c \in Containers : createVolumes(c)
    \/ \E h \in Objs, c \in Containers : RemoveContainer(h, c)
    \/ \E k \in Keys : Delete(k)

SpecDaemon == Init /\ [][DaemonNext]_vars

\* The repository over a config root that the environment damages.
RestoreRequests ==
    { <<"", <<>>>>,
      <<"vfs", << <<"path", "la">> >> >>,
      <<"host", << <<"path", "a">> >> >> }

RestoreNext ==
    \/ \E rq \in RestoreRequests, cands \in CandSeqs :
            FindOrCreateVolume(rq[1], rq[2], cands)
    \/ \E h \in Objs : AddContainer(h, "c1")
    \/ NewRepository
    \/ \E i \in DirNames, doc \in TamperDocs : EnvTamper(i, doc)

SpecRestore == Init /\ [][RestoreNext]_vars

\* The repository called with and without a driver name.
DefaultRequests ==
    { <<"", <<>>>>,
      <<"", << <<"path", "">> >> >>,
      <<"", << <<"path", "a">> >> >>,
      <<"vfs", <<>>>>,
      <<"vfs", << <<"path", "">> >> >>,
      <<"vfs", << <<"path", "a">> >> >> }

DefaultNext ==
    \/ \E rq \in DefaultRequests, cands \in CandSeqs :
            FindOrCreateVolume(rq[1], rq[2], cands)
    \/ \E k \in Keys : Delete(k)
    \/ NewRepository

SpecDefault == Init /\ [][DefaultNext]_vars

\* ExecServer and PluginServer instances and their children.
SpecServer == Init /\ [][SrvNext]_vars

\* Instances whose Start succeeds or fails before or after the child was
\* spawned, with children that exit once their standard input is closed and a
\* Wait that returns once the child has exited.
LiveNext ==
    \/ \E s \in Servers, fail \in {"none", "cmdstart", "channel2"} : Start(s, fail)
    \/ \E s \in Servers, closeErr \in BOOLEAN : Stop(s, closeErr)
    \/ \E s \in Servers : StopReturn(s)
    \/ \E c \in 1..MaxStarts, status \in {"exited", "failed"} : ChildExit(c, status)

SpecServerLive ==
    /\ Init /\ [][LiveNext]_vars
    /\ \A s \in Servers : WF_vars(StopReturn(s)) /\ WF_vars(ChildExitOnEOF(s))

\* Each side of the handshake is a running thread: a call that can return does.
SpecBoot ==
    /\ Init /\ [][BootNext]_vars
    /\ \A s \in Servers, side \in Sides :
          /\ WF_vars(BootNewSendChannel(s, side))
          /\ WF_vars(BootSendReturn(s, side))
          /\ WF_vars(BootWaitReceiveChannel(s, side))

\* Local goroutines calling the facade of one started plugin instance.
SpecRpc == Init /\ [][RpcNext]_vars

\* The graph-driver router and the generic Plugin router.
SpecRouter == Init /\ [][RouterNext]_vars

\* The twelve remote operations, one call at a time.
SpecOps == Init /\ [][OpsNext]_vars

SpecOpts == Init /\ [][OptsNext]_vars

SpecSend == Init /\ [][SendNext]_vars

SpecFail == Init /\ [][FailNext]_vars

\* The accept loops are running goroutines: an AcceptTransport call on a closed
\* listener returns.
SpecClose ==
    /\ Init /\ [][CloseNext]_vars
    /\ \A s \in ChanServers : WF_vars(ClosedAccept(s))

\* The accept loops and workers of the channel servers.
SpecChan == Init /\ [][ChanNext]_vars


(***************************************************************************)
(* Properties of the volume repository                                     *)
(***************************************************************************)
\* C1: a FindOrCreateVolume whose driver yields an identity (String()) that is
\* already registered returns the very Volume registered under it, does not
\* call the driver's Create, and leaves one entry for the identity in each map.
C1_FindOrCreateIdempotent ==
    [][ (last'.op = "FindOrCreateVolume" /\ last'.key \in DOMAIN volumes) =>
            /\ last'.err = ""
            /\ last'.ret = volumes[last'.key]
            /\ ~last'.drvCreate
            /\ volumes' = volumes /\ idIndex' = idIndex /\ heap' = heap
            /\ Cardinality({i \in DOMAIN idIndex' : idIndex'[i] = volumes'[last'.key]}) = 1
      ]_vars

C1_Witness ==
    /\ last.op = "FindOrCreateVolume" /\ last.found
    /\ last.key \in DOMAIN volumes /\ last.ret = volumes[last.key]

\* C2: Delete of a registered Volume with a non-empty container set fails with
\* the in-use error naming exactly the referencing containers; the config
\* directory stays, the driver's Remove is not called, both maps are unchanged.
C2_DeleteInUseFails ==
    [][ (/\ last'.op = "Delete"
         /\ last'.key \in DOMAIN volumes
         /\ heap[volumes[last'.key]].containers # {}) =>
            /\ last'.err = "VolumeInUse"
            /\ last'.names = heap[volumes[last'.key]].containers
            /\ ~last'.cfgRemoved /\ ~last'.drvRemove
            /\ disk' = disk /\ dirs' = dirs
            /\ volumes' = volumes /\ idIndex' = idIndex /\ heap' = heap
      ]_vars

C2_Witness ==
    /\ last.op = "Delete" /\ last.err = "VolumeInUse" /\ last.names # {}
    /\ last.key \in DOMAIN volumes
    /\ disk[heap[volumes[last.key]].configPath].kind = "json"

\* C3: Delete of a registered Volume whose container set is empty succeeds:
\* config directory removed, driver Remove called, Volume in neither map.
C3_DeleteUnusedSucceeds ==
    [][ (/\ last'.op = "Delete"
         /\ last'.key \in DOMAIN volumes
         /\ heap[volumes[last'.key]].containers = {}) =>
            /\ last'.err = ""
            /\ last'.cfgRemoved /\ last'.drvRemove
            /\ disk'[heap[volumes[last'.key]].configPath].kind = "absent"
            /\ get(volumes', last'.key) = NoObj
            /\ heap[volumes[last'.key]].ID \notin DOMAIN idIndex'
      ]_vars

\* C5: ID generation fails with IdGenerateErr, registering nothing, exactly when
\* all five candidates are in the ID index; otherwise the ID it returns is not
\* in the ID index.
C5_GenerateId ==
    [][ last'.op = "FindOrCreateVolume" =>
            IF last'.allCollide
            THEN /\ last'.err = "IdGenerateErr" /\ last'.ret = NoObj
                 /\ volumes' = volumes /\ idIndex' = idIndex /\ heap' = heap
                 /\ disk' = disk /\ dirs' = dirs
            ELSE /\ last'.err # "IdGenerateErr"
                 /\ last'.id \in IDs /\ last'.id \notin DOMAIN idIndex
                 /\ (last'.drvCreate /\ last'.err = "" =>
                        /\ idIndex'[last'.id] = last'.ret
                        /\ heap'[last'.ret].ID = last'.id)
      ]_vars

C5_Witness ==
    /\ last.op = "FindOrCreateVolume" /\ last.allCollide
    /\ last.err = "IdGenerateErr" /\ DOMAIN idIndex # {}

\* C6: a restart (NewRepository over the same config root) reconstructs every
\* registered Volume whose config.json is still there with the same ID, an equal
\* {DriverName, Opts} and a driver that reports the same String().
C6_RoundTrip ==
    [][ last'.op = "NewRepository" =>
            \A h \in DOMAIN heap :
                disk[heap[h].configPath].kind = "json" =>
                    \E g \in DOMAIN heap' :
                        /\ heap'[g].ID = heap[h].ID
                        /\ heap'[g].DriverName = heap[h].DriverName
                        /\ heap'[g].Opts = heap[h].Opts
                        /\ String(heap'[g]) = String(heap[h])
                        /\ get(volumes', String(heap[h])) = g
                        /\ get(idIndex', heap[h].ID) = g
      ]_vars

\* A Volume made for the symlinked path before its target existed has been
\* restored after the target was created.
C6_Witness ==
    /\ last.op = "NewRepository" /\ up
    /\ \E h \in DOMAIN heap :
          /\ String(heap[h]) = "la" /\ "a" \in dirs
          /\ <<"path", "la">> \in {heap[h].Opts[i] : i \in DOMAIN heap[h].Opts}

C7_SecondStartFails ==
    [][ (slast'.op = "Start" /\ srv[slast'.srv].cmd # NoChild) =>
            /\ slast'.err = "already loaded"
            /\ ~slast'.spawned
            /\ slast'.pairs = 0
            /\ children' = children
            /\ npairs' = npairs
            /\ srv'[slast'.srv] = srv[slast'.srv] ]_vars

C7_Witness ==
    /\ slast.op = "Start" /\ slast.err = "already loaded"
    /\ srv[slast.srv].cmd # NoChild
    /\ Len(children) = 1 /\ npairs = 2

\* C8: Stop on an instance without a recorded child (Start never called, or
\* never succeeded) fails with "Not started", closes no stream and waits on no
\* process.
C8_StopBeforeStartFails ==
    [][ (slast'.op \in {"Stop", "Stop.Wait"} /\ srv[slast'.srv].cmd = NoChild) =>
            /\ slast'.op = "Stop"
            /\ slast'.err = "Not started"
            /\ ~slast'.closedStdin
            /\ slast'.waitedOn = NoChild
            /\ srv' = srv
            /\ children' = children ]_vars

C8_Witness ==
    /\ slast.op = "Stop" /\ slast.err = "Not started"
    /\ nstart = 0
    /\ srv[slast.srv] = NewServer

\* C9: when one caller has performed Exists("x"), Create("x", ""), Exists("x")
\* in that order on the plugin instance, the child has received exactly the
\* three requests Exists, Create, Exists in that order, has sent one response
\* for each, and the facade has returned false, nil, true.
C9Script ==
    << [caller |-> "g1", Func |-> "Exists", id |-> "x"],
       [caller |-> "g1", Func |-> "Create", id |-> "x"],
       [caller |-> "g1", Func |-> "Exists", id |-> "x"] >>

C9_ThreeRoundTrips ==
    (issued = C9Script /\ Len(returned) = 3) =>
        /\ Len(childLog) = 3
        /\ \A i \in 1..3 : /\ childLog[i].Func = C9Script[i].Func
                           /\ childLog[i].nresp = 1
                           /\ childLog[i].err = ""
        /\ reqQ = <<>> /\ respQ = <<>>
        /\ returned[1].Func = "Exists" /\ returned[1].Bool = FALSE
        /\ returned[2].Func = "Create" /\ returned[2].Err = ""
        /\ returned[3].Func = "Exists" /\ returned[3].Bool = TRUE

C9_Witness ==
    /\ issued = C9Script /\ Len(returned) = 3
    /\ returned[3].Bool = TRUE
    /\ created = {"x"}

\* C10: every caller of a facade operation receives the response the child
\* produced for its own request.
C10_OwnResponse ==
    \A i \in DOMAIN returned : returned[i].for = returned[i].tag

\* C11: Delete with a key under which no Volume is registered fails with the
\* "does not exist" error and leaves both maps, the config directories and the
\* data directories unchanged.
C11_DeleteUnknownFails ==
    [][ (last'.op = "Delete" /\ last'.key \notin DOMAIN volumes) =>
            /\ last'.err = "DoesNotExist"
            /\ ~last'.cfgRemoved /\ ~last'.drvRemove
            /\ volumes' = volumes /\ idIndex' = idIndex /\ heap' = heap
            /\ disk' = disk /\ dirs' = dirs ]_vars

C11_Witness ==
    /\ last.op = "Delete" /\ last.err = "DoesNotExist"
    /\ last.key \notin DOMAIN volumes
    /\ DOMAIN volumes # {} /\ dirs # {}

\* C12: Delete is addressed by Volume ID: Delete(v.ID) of a registered Volume v
\* with no containers finds v (it does not report "does not exist").
C12_DeleteByID ==
    [][ (/\ last'.op = "Delete"
         /\ last'.key \in DOMAIN idIndex
         /\ heap[idIndex[last'.key]].containers = {}) =>
            /\ last'.err # "DoesNotExist"
            /\ last'.ret = idIndex[last'.key] ]_vars

(***************************************************************************)
(* Properties of the routers and the channel servers                       *)
(***************************************************************************)
\* C13: dispatch of an envelope whose Func is in no router map fails with the
\* "not supported" error, invokes no handler and sends nothing on the outbound
\* channel, in the graph-driver router and in the generic Plugin router.
C13_UnroutedFuncFails ==
    [][ /\ (reqQ # <<>> /\ reqQ' = Tail(reqQ) /\ Head(reqQ).Func \notin Router) =>
              /\ childLog' = Append(childLog, [Func |-> Head(reqQ).Func,
                                               tag |-> Head(reqQ).tag,
                                               err |-> "not supported", nresp |-> 0,
                                               sent |-> <<>>, call |-> NoCall])
              /\ respQ' = respQ
              /\ created' = created
        /\ (gen.inQ # <<>> /\ gen'.inQ = Tail(gen.inQ)
                /\ Head(gen.inQ).Func \notin GenRouter) =>
              /\ gen'.log = Append(gen.log, [Func |-> Head(gen.inQ).Func,
                                             err |-> "not supported",
                                             invoked |-> FALSE, nresp |-> 0])
              /\ gen'.outQ = gen.outQ ]_vars

C13_Witness ==
    /\ \E i \in DOMAIN childLog :
          /\ childLog[i].Func \notin Router /\ childLog[i].err = "not supported"
          /\ \E j \in DOMAIN childLog : j > i /\ childLog[j].nresp = 1
    /\ \E i \in DOMAIN gen.log :
          gen.log[i].Func \notin GenRouter /\ gen.log[i].err = "not supported"

\* C14: a call that fails does not end the loop that served it: after a turn of
\* a worker loop whose channel wait, receive or reply returned an error, the
\* worker of that transport is still running and the accept loop still accepts.
C14_FailingCallKeepsLoop ==
    [][ \A s \in ChanServers, t \in Transports :
          (/\ chansrv[s].worker[t] = "running"
           /\ chansrv'[s].last = [op |-> "call", t |-> t, outcome |-> chansrv'[s].last.outcome]
           /\ chansrv'[s] # chansrv[s]
           /\ CallFails(chansrv'[s].last.outcome)) =>
              /\ chansrv'[s].worker[t] = "running"
              /\ chansrv'[s].accepting = chansrv[s].accepting ]_vars

(***************************************************************************)
(* Properties of driver selection and driver errors                        *)
(***************************************************************************)
\* C15: FindOrCreateVolume with a driver name that was never registered calls
\* no constructor, registers nothing and creates nothing; when ID generation
\* succeeded, so that NewDriver was reached, it returns NewDriver's "driver
\* does not exist" error.
C15_UnknownDriverFails ==
    [][ (last'.op = "FindOrCreateVolume" /\ last'.driver \notin Registered) =>
            /\ last'.ctor = ""
            /\ last'.err = IF last'.allCollide THEN "IdGenerateErr"
                           ELSE "volumedriver.DriverNotExist"
            /\ last'.ret = NoObj
            /\ volumes' = volumes /\ idIndex' = idIndex /\ heap' = heap
            /\ dirs' = dirs /\ disk' = disk ]_vars

C15_Witness ==
    /\ last.op = "FindOrCreateVolume" /\ last.driver = "nope"
    /\ last.err = "volumedriver.DriverNotExist" /\ last.ctor = ""
    /\ DOMAIN volumes # {}

\* C16: when the driver constructor fails with volumedriver.DataExist,
\* FindOrCreateVolume returns volumes.DataExist; every other error of the
\* constructor is returned as it is; in both cases no Volume is registered.
C16_DataExistTranslated ==
    [][ (last'.op = "FindOrCreateVolume" /\ last'.drvErr # "") =>
            /\ last'.err = IF last'.drvErr = "volumedriver.DataExist"
                           THEN "volumes.DataExist" ELSE last'.drvErr
            /\ last'.err # "volumedriver.DataExist"
            /\ last'.ret = NoObj
            /\ volumes' = volumes /\ idIndex' = idIndex /\ heap' = heap ]_vars

C16_Witness ==
    /\ last.op = "FindOrCreateVolume" /\ last.ctor = "vfs"
    /\ last.drvErr = "volumedriver.DataExist" /\ last.err = "volumes.DataExist"
    /\ DOMAIN volumes # {}

\* C17: FindOrCreateVolume with an empty driver name does what it does with
\* the name "vfs": same result and same effect for the same options and the
\* same generated IDs; the vfs constructor is called and the config.json it
\* writes records DriverName "vfs".
C17_EmptyDriverIsVfs ==
    [][ \A rq \in DefaultRequests, c \in CandSeqs :
          rq[1] = "" =>
            /\ FindOrCreateVolume("", rq[2], c) <=> FindOrCreateVolume("vfs", rq[2], c)
            /\ (FindOrCreateVolume("", rq[2], c) /\ ~last'.allCollide) =>
                    last'.ctor = "vfs"
            /\ (FindOrCreateVolume("", rq[2], c) /\ last'.err = "" /\ ~last'.found) =>
                    /\ disk'[last'.id].kind = "json"
                    /\ disk'[last'.id].DriverName = "vfs"
                    /\ heap'[last'.ret].DriverName = "vfs" ]_vars

C17_Witness ==
    /\ last.op = "FindOrCreateVolume" /\ last.err = "" /\ ~last.found
    /\ last.ctor = "vfs"
    /\ last.key = JoinHomeDir(HomeOf("vfs"), last.id)
    /\ disk[last.id].kind = "json" /\ disk[last.id].DriverName = "vfs"
    /\ \A i \in DOMAIN heap[last.ret].Opts : heap[last.ret].Opts[i][1] # "path"

\* C18: Remove of the host driver succeeds and removes nothing: a Delete of a
\* host-backed Volume that reaches the driver succeeds and leaves every
\* directory of the file system, the host path among them, in place, and so
\* does the Remove that follows a failed Create in FindOrCreateVolume.
C18_HostRemoveNoOp ==
    [][ (last'.drvRemove /\ last'.driver = "host") =>
            /\ dirs \subseteq dirs'
            /\ last'.op = "Delete" =>
                    /\ last'.err = ""
                    /\ dirs' = dirs ]_vars

C18_Witness ==
    /\ last.op = "Delete" /\ last.driver = "host" /\ last.drvRemove
    /\ last.err = "" /\ last.key = "a"
    /\ "a" \notin DOMAIN volumes
    /\ Exists("a", dirs)

\* C19: a Delete of a registered host-backed Volume is refused: it returns an
\* error and leaves the Volume registered in both maps.
C19_HostDeleteRefused ==
    [][ (last'.op = "Delete" /\ last'.ret # NoObj /\ heap[last'.ret].drv.name = "host") =>
            /\ last'.err # ""
            /\ volumes' = volumes
            /\ idIndex' = idIndex ]_vars

\* C20: every call the facade returned from was served in the child by the
\* handler of the same operation, which called the wrapped driver's method of
\* that name with the id and the parent the facade was given.
C20_SameHandlerSamePayload ==
    \A i \in 1..Len(returned), j \in 1..Len(childLog) :
        childLog[j].tag = returned[i].tag =>
            /\ childLog[j].call.method = returned[i].Func
            /\ childLog[j].call.Parent = ParentOf(returned[i].Func)
            /\ childLog[j].call.Id =
                    IF returned[i].Func \in {"String", "Status", "Cleanup"} THEN ""
                    ELSE issued[returned[i].tag].id

\* C21: the facade's Get returns the directory and the error the child's
\* wrapped driver returned for that call.
C21_GetReturnsDir ==
    \A i \in 1..Len(returned), j \in 1..Len(childLog) :
        (childLog[j].tag = returned[i].tag /\ returned[i].Func = "Get") =>
            /\ returned[i].Path = childLog[j].sent[1].Dir
            /\ returned[i].Err = childLog[j].sent[1].Err

\* C22: when the wrapped driver returns an error, the handler sends exactly
\* one response whose Err is that error and reports no error to the receive
\* loop, and the facade call that receives its own response returns that
\* error.
C22_DriverErrorInResponse ==
    /\ \A j \in 1..Len(childLog) :
          childLog[j].call.err # "" =>
            /\ childLog[j].err = ""
            /\ childLog[j].nresp = 1
            /\ childLog[j].sent[1].Err = childLog[j].call.err
    /\ \A i \in 1..Len(returned), j \in 1..Len(childLog) :
          (/\ returned[i].for = returned[i].tag
           /\ childLog[j].tag = returned[i].tag
           /\ childLog[j].call.err # "") =>
                returned[i].Err = childLog[j].call.err

C22_Witness ==
    /\ \E i \in 1..Len(returned) :
          /\ returned[i].Func = "Create" /\ returned[i].for = returned[i].tag
          /\ returned[i].Err = "drvfail"
    /\ \E j \in 1..Len(childLog) :
          /\ childLog[j].call.method = "DiffSize" /\ childLog[j].call.err = "drvfail"
          /\ childLog[j].nresp = 1

\* C23: in every state of the Repository a Volume is registered in the
\* lookup-key map under its String() exactly when it is registered in the ID
\* map under its ID.
C23_MapsConsistent ==
    /\ {volumes[k] : k \in DOMAIN volumes} = {idIndex[i] : i \in DOMAIN idIndex}
    /\ \A h \in DOMAIN heap :
          (String(heap[h]) \in DOMAIN volumes /\ volumes[String(heap[h])] = h)
              <=> (heap[h].ID \in DOMAIN idIndex /\ idIndex[heap[h].ID] = h)

\* A Delete failed after it removed the config directory, and the Volume is
\* still in both maps, next to a second one.
C23_Witness ==
    /\ last.op = "Delete" /\ last.drvRemove /\ last.err # ""
    /\ last.key \in DOMAIN volumes
    /\ heap[volumes[last.key]].ID \in DOMAIN idIndex
    /\ Cardinality(DOMAIN volumes) = 2

\* C24: no two registered Volumes have the same ID or the same lookup key, and
\* the ID FindOrCreateVolume generates for a new Volume is not in the ID index
\* at that moment.
C24_UniqueIDs ==
    [][ /\ \A h1, h2 \in DOMAIN heap' :
              h1 # h2 => /\ heap'[h1].ID # heap'[h2].ID
                         /\ String(heap'[h1]) # String(heap'[h2])
        /\ (last'.op = "FindOrCreateVolume" /\ last'.id # "") =>
              /\ last'.id \notin DOMAIN idIndex
              /\ (last'.err = "" /\ ~last'.found) => heap'[last'.ret].ID = last'.id ]_vars

C24_Witness ==
    /\ last.op = "FindOrCreateVolume" /\ last.err = "" /\ ~last.found
    /\ DOMAIN idIndex = {"i1", "i2"}
    /\ idIndex["i1"] # idIndex["i2"]
    /\ Cardinality(DOMAIN volumes) = 2

\* C25: whenever a Delete removes the config directory, calls the driver's
\* Remove or unregisters the Volume, no container holds the Volume at that
\* moment.
C25_DeletedVolumeUnused ==
    [][ (deleting.pc # "idle" /\ deleting' # deleting) =>
            VolumeContainers(heap[deleting.h]) = {} ]_vars

\* C26: a Volume that Get or FindOrCreateVolume returns has its config
\* directory: none is returned that is still registered after its config
\* directory was removed.
C26_LookupNeverHalfDeleted ==
    [][ (last'.op \in {"Get", "FindOrCreateVolume"} /\ last'.ret # NoObj) =>
            disk'[heap'[last'.ret].configPath].kind = "json" ]_vars

\* C27: when FindOrCreateVolume reaches Volume.Create for a key that is not
\* registered and the driver's Create or the writing of config.json fails, it
\* returns the error and no Volume, registers nothing, and has called the
\* driver's Remove: the directory a vfs driver created is gone again.
C27_CreateFailureRollsBack ==
    [][ (last'.op = "FindOrCreateVolume" /\ last'.drvCreate /\ last'.err # "") =>
            /\ last'.ret = NoObj
            /\ last'.key \notin DOMAIN volumes
            /\ volumes' = volumes /\ idIndex' = idIndex /\ heap' = heap
            /\ last'.drvRemove
            /\ last'.driver = "vfs" => ~Exists(last'.key, dirs')
            /\ last'.driver = "host" => dirs \subseteq dirs' ]_vars

C27_Witness ==
    /\ last.op = "FindOrCreateVolume" /\ last.drvCreate /\ last.drvRemove
    /\ last.driver = "vfs" /\ last.err = "stat"
    /\ disk[last.id] = Unwritable
    /\ DOMAIN volumes # {}

\* C28: a restore over a config root in which every config.json that exists
\* holds an object neither fails nor crashes, and a directory whose
\* config.json is not found is skipped: it is registered in neither map.
C28_NotFoundSkipped ==
    [][ (last'.op = "NewRepository" /\ \A i \in DirNames : disk[i].kind # "null") =>
            /\ up'
            /\ last'.err = ""
            /\ \A i \in DirNames :
                  disk[i].kind = "nofile" =>
                      /\ i \in last'.skipped
                      /\ i \notin DOMAIN idIndex' ]_vars

\* C29: a Start that fails after both socket pairs were created has closed
\* every descriptor it opened by the time it returns.
C29_FailedStartClosesAll ==
    [][ (/\ slast'.op = "Start"
         /\ slast'.err \notin {"", "already loaded"}
         /\ slast'.pairs = 2) => slast'.open = {} ]_vars

\* C30: a Stop of a started instance that waits for the child has closed the
\* standard-input pipe before; if the child exits on end-of-input the Stop
\* returns in the end; and the first Stop that waited returns the exit error
\* of the child if its exit status is not zero and no error otherwise.
C30_StopClosesThenWaits ==
    /\ [](\A s \in Servers : srv[s].stopping => srv[s].stdin = "closed")
    /\ \A s \in Servers : srv[s].stopping ~> ~srv[s].stopping
    /\ [][ \A s \in Servers :
              (srv[s].stopping /\ ~srv'[s].stopping /\ ~srv[s].waited) =>
                  /\ slast'.op = "Stop" /\ slast'.srv = s
                  /\ children[srv[s].cmd] \in {"exited", "failed"}
                  /\ slast'.err = IF children[srv[s].cmd] = "failed"
                                  THEN "exit status" ELSE "" ]_vars

C30_Witness ==
    /\ slast.op = "Stop" /\ slast.err = "exit status" /\ slast.closedStdin
    /\ slast.waitedOn # NoChild
    /\ srv[slast.srv].stdin = "closed" /\ ~srv[slast.srv].stopping
    /\ children[slast.waitedOn] = "failed"

(***************************************************************************)
(* Properties of the handshake, the facade's send failure, the options,    *)
(* and the remaining lifecycle properties                                  *)
(***************************************************************************)
\* C31: the roles and the order of the handshake fit: descriptor 3 of the child
\* is the other end of the stream on which the parent creates its send channel
\* and the child waits there, descriptor 4 is the other end of the stream on
\* which the parent waits and the child creates its send channel there, both
\* sides take the request stream first, and a started handshake completes on
\* both sides.
C31_HandshakeCompatible ==
    /\ [](\A s \in Servers :
            /\ ChildFd(s, 3) = Peer(SendFile(s, "parent"))
            /\ ChildFd(s, 3) = WaitFile(s, "child")
            /\ ChildFd(s, 4) = Peer(WaitFile(s, "parent"))
            /\ ChildFd(s, 4) = SendFile(s, "child")
            /\ Order("parent")[1] = "send" /\ Order("child")[1] = "wait")
    /\ \A s \in Servers :
          (boot[s].parent.step = 1) ~> (BootDone(s, "parent") /\ BootDone(s, "child"))

\* Both instances completed the handshake, one with a NewSendChannel that waits
\* for the other end and one with a NewSendChannel that does not.
C31_Witness ==
    /\ \A s \in Servers : BootDone(s, "parent") /\ BootDone(s, "child")
    /\ boot["exec"].sync /\ ~boot["plugin"].sync
    /\ \A s \in Servers, p \in {"inFd", "outFd"} : boot[s].stream[p].accepted

\* C32: a facade method does one send and then one receive: the step that
\* starts it either puts one message on the outbound channel and leaves the
\* caller waiting in its receive, or (the send failed) returns at once, without
\* taking anything from the inbound channel, the transport error, or false, "",
\* nil or nothing for Exists, String, Status and Put; the step that ends it
\* takes exactly one response and sends nothing.
C32_OneSendOneReceive ==
    [][ \A g \in Callers :
          /\ (/\ caller[g].pc = "idle"
              /\ \/ caller'[g] # caller[g]
                 \/ /\ Len(returned') = Len(returned) + 1
                    /\ returned'[Len(returned')].caller = g) =>
                \/ /\ Len(reqQ') = Len(reqQ) + 1
                   /\ SubSeq(reqQ', 1, Len(reqQ)) = reqQ
                   /\ caller'[g].pc = "recv"
                   /\ returned' = returned /\ respQ' = respQ
                \/ /\ reqQ' = reqQ /\ respQ' = respQ /\ caller'[g] = caller[g]
                   /\ Len(returned') = Len(returned) + 1
                   /\ LET r == returned'[Len(returned')]
                      IN /\ r.recvs = 0
                         /\ r.Err = IF r.Func \in {"Exists", "String", "Status", "Put"}
                                    THEN "" ELSE "send"
                         /\ ~r.Bool /\ r.String = "" /\ r.Status = "" /\ r.Path = ""
                         /\ r.Archive = "" /\ r.Changes = "" /\ r.Bytes = 0
          /\ (caller[g].pc = "recv" /\ caller'[g] # caller[g]) =>
                /\ respQ # <<>> /\ respQ' = Tail(respQ) /\ reqQ' = reqQ
                /\ caller'[g].pc = "idle"
                /\ Len(returned') = Len(returned) + 1
                /\ returned'[Len(returned')].recvs = 1 ]_vars

\* A Create whose send failed returned the transport error, an Exists whose
\* send failed returned false, and a third call was sent and answered.
C32_Witness ==
    \E i, j, k \in DOMAIN returned :
        /\ returned[i].Func = "Create" /\ returned[i].recvs = 0 /\ returned[i].Err = "send"
        /\ returned[j].Func = "Exists" /\ returned[j].recvs = 0 /\ ~returned[j].Bool
        /\ returned[k].recvs = 1
        /\ childLog # <<>>

\* C33: Get returns the value of the first entry whose key matches, provided
\* every entry before it has the form key=value; it returns the missing-key
\* error when all entries have that form and none matches, and the parse error
\* when an entry without "=" comes before any match.  Set appends one entry and
\* replaces none.  So the id= and home= entries newVolume appends never take
\* precedence over an id= or home= of the caller.
C33_FirstMatchOrParseError ==
    [][ /\ dopts'.op = "Get" =>
            LET o == dopts.opts
                k == dopts'.key
                hits == {i \in DOMAIN o : Len(o[i]) = 2 /\ o[i][1] = k}
                bad == {i \in DOMAIN o : Len(o[i]) # 2}
                first(S) == CHOOSE i \in S : \A j \in S : i <= j
            IN /\ dopts'.opts = o
               /\ IF hits # {} /\ (bad = {} \/ first(hits) < first(bad))
                  THEN dopts'.got = [v |-> o[first(hits)][2], err |-> ""]
                  ELSE IF bad # {}
                  THEN dopts'.got = [v |-> "", err |-> "parse"]
                  ELSE dopts'.got = [v |-> "", err |-> "OptsKeyNotExist"]
        /\ dopts'.op = "Set" =>
            /\ Len(dopts'.opts) = Len(dopts.opts) + 1
            /\ SubSeq(dopts'.opts, 1, Len(dopts.opts)) = dopts.opts
            /\ dopts'.opts[Len(dopts'.opts)][1] = dopts'.key
        /\ \A k \in {"id", "home"}, id \in IDs, driver \in {"vfs", "host"} :
              OptsGet(dopts'.opts, k).err = "" =>
                 OptsGet(newVolumeOpts(dopts'.opts, id, driver), k) = OptsGet(dopts'.opts, k)
      ]_vars

\* Get("id") on a list with two id= entries returned the first value, and the
\* list is one the caller's id= of which differs from the id newVolume appends.
C33_Witness ==
    /\ dopts.op = "Get" /\ dopts.key = "id"
    /\ \E i, j \in DOMAIN dopts.opts :
          /\ i < j /\ dopts.opts[i] = <<"id", "b">> /\ dopts.opts[j][1] = "id"
          /\ dopts.opts[j][2] # "b"
          /\ \A h \in 1..(i - 1) : dopts.opts[h] = <<"home", "h">>
    /\ dopts.got = [v |-> "b", err |-> ""]
    /\ \E id \in IDs : id # "b" /\ OptsGet(newVolumeOpts(dopts.opts, id, "vfs"), "id").v = "b"

\* C33 as stated: Get returns the value of the first entry whose key matches,
\* and the missing-key error when no entry matches.
C33_AsStated ==
    [][ dopts'.op = "Get" =>
            LET o == dopts.opts
                k == dopts'.key
                hits == {i \in DOMAIN o : Len(o[i]) = 2 /\ o[i][1] = k}
                first(S) == CHOOSE i \in S : \A j \in S : i <= j
            IN IF hits # {}
               THEN dopts'.got = [v |-> o[first(hits)][2], err |-> ""]
               ELSE dopts'.got = [v |-> "", err |-> "OptsKeyNotExist"]
      ]_vars

\* C34: a Delete that returns an error leaves the Volume as it was: both maps,
\* the config directories on disk and the data directories are unchanged.
C34_FailedDeleteChangesNothing ==
    [][ (last'.op = "Delete" /\ last'.err # "") =>
            /\ volumes' = volumes /\ idIndex' = idIndex
            /\ disk' = disk /\ dirs' = dirs ]_vars

\* C35: every child process that is running is recorded by an instance (so a
\* Stop of that instance waits for it), and an instance that records no child
\* has no child running: a Start that spawns finds none alive.
C35_ChildrenOwned ==
    \A c \in DOMAIN children :
        children[c] = "running" => \E s \in Servers : srv[s].cmd = c

\* C36: the lifecycle is one-way: a recorded child is never cleared; a Start on
\* an instance that records a child, also after its Stop, fails with "already
\* loaded" and spawns nothing; and a Stop on an instance whose child was already
\* waited for returns an error.
C36_LifecycleOneWay ==
    [][ \A s \in Servers :
          /\ srv[s].cmd # NoChild => srv'[s].cmd = srv[s].cmd
          /\ (slast'.op = "Start" /\ slast'.srv = s /\ srv[s].cmd # NoChild) =>
                /\ slast'.err = "already loaded"
                /\ ~slast'.spawned /\ children' = children
          /\ (slast'.op = "Stop" /\ slast'.srv = s /\ srv[s].waited) =>
                slast'.err # "" ]_vars

\* A second Stop of the exec instance returned the error of a second Wait, the
\* child having exited with status 0, while the plugin instance, stopped too,
\* still records its child.
C36_Witness ==
    /\ slast.op = "Stop" /\ slast.srv = "exec"
    /\ slast.err = "Wait was already called"
    /\ srv["exec"].waited /\ children[srv["exec"].cmd] = "exited"
    /\ srv["plugin"].waited /\ srv["plugin"].cmd # NoChild

\* C37: FindOrCreateVolume returns a Volume exactly when it returns no error,
\* and createVolumes goes on to String() and AddContainer only with a Volume
\* that is registered: it never dereferences a nil Volume.
C37_NeverNilVolume ==
    [][ /\ last'.op = "FindOrCreateVolume" => (last'.ret # NoObj <=> last'.err = "")
        /\ last'.op = "createVolumes" =>
              /\ last'.err # "panic"
              /\ last'.err = "" =>
                    /\ last'.ret \in DOMAIN heap'
                    /\ get(volumes', last'.key) = last'.ret ]_vars

\* C38: container references are not persisted: every Volume registered by
\* restore has an empty container set when NewRepository returns, and a Delete
\* of a registered Volume that comes next is not refused as "in use".
C38_RestoredVolumesUnused ==
    [][ /\ last'.op = "NewRepository" =>
              \A h \in DOMAIN heap' : VolumeContainers(heap'[h]) = {}
        /\ (last.op = "NewRepository" /\ last'.op = "Delete" /\ last'.ret # NoObj) =>
              /\ last'.err # "VolumeInUse"
              /\ last'.cfgRemoved ]_vars

\* NewRepository returned with two Volumes restored from their config.json,
\* both registered under their lookup key and their ID, neither with a container.
C38_Witness ==
    /\ last.op = "NewRepository" /\ last.err = "" /\ up
    /\ Cardinality(DOMAIN volumes) = 2 /\ Cardinality(DOMAIN idIndex) = 2
    /\ \A h \in DOMAIN heap : VolumeContainers(heap[h]) = {}

\* C39: requests and responses stay in lock step: the child sends exactly one
\* response, the reply to that request, when it receives an envelope whose Func
\* is one of the twelve routed operations, sends none at any other time, and
\* with calls issued one after the other the k-th response the facade receives
\* is the reply to the k-th request it sent.
C39_LockStep ==
    [][ /\ (reqQ # <<>> /\ reqQ' = Tail(reqQ) /\ Head(reqQ).Func \in Router) =>
              /\ Len(respQ') = Len(respQ) + 1
              /\ SubSeq(respQ', 1, Len(respQ)) = respQ
              /\ respQ'[Len(respQ')].for = Head(reqQ).tag
        /\ Len(respQ') > Len(respQ) => (reqQ # <<>> /\ reqQ' = Tail(reqQ))
        /\ \A k \in DOMAIN returned' :
              /\ returned'[k].tag = k /\ returned'[k].for = k
              /\ issued'[k].caller = returned'[k].caller ]_vars

\* Three calls in a row, Put, Status and DiffSize, each answered by its own
\* response.
C39_Witness ==
    /\ Len(returned) = 3 /\ Len(childLog) = 3
    /\ returned[1].Func = "Put" /\ returned[2].Func = "Status"
    /\ returned[3].Func = "DiffSize"
    /\ \A k \in 1..3 : returned[k].for = k /\ childLog[k].nresp = 1

\* C40: Serve stops after Close: once the listener of a channel server is
\* closed, its accept loop eventually ends.
C40_ServeStopsAfterClose ==
    \A s \in ChanServers : chansrv[s].closed ~> ~chansrv[s].accepting

====
